---- MODULE Spec2Model ----
(***************************************************************************)
(* State-machine model of the classification engine of kraken2             *)
(* (src/src/classify.cc): the batch driver ProcessFiles with its reorder   *)
(* queue, the tree resolver ResolveTree and the per-fragment classifier    *)
(* ClassifySequence.                                                       *)
(***************************************************************************)
EXTENDS Integers, Sequences, FiniteSets, TLC

(***************************************************************************)
(* Bounds of the model.                                                    *)
(***************************************************************************)
MaxWorkers == 2
MaxInputFragments == 5
FragmentsPerBatch == 2
NumTaxa == 4
MaxHits == 3
MaxMisses == 1
MaxKeys == 3
NumMinimizers == 2
MaxMinimizers == 2
MaxMinHitGroups == 2

(***************************************************************************)
(* Integer widths, scaled to the range of the model checker: SIZE_MODULUS  *)
(* stands for 2^64 (size_t arithmetic wraps modulo it), UINT32_MAX for     *)
(* 2^32 - 1 and TAXID_MAX for the greatest taxid_t.                        *)
(***************************************************************************)
SIZE_MODULUS == 16777216
UINT32_MAX == 4095
TAXID_MAX == 1000003
UINT64_MAX == 1000004

Workers == 1..MaxWorkers
NoWorker == 0

\* The result of ClassifySequence on a fragment, as the driver sees it:
\* 0 (unclassified) or a taxon.
Calls == {0, 1}

Min(a, b) == IF a < b THEN a ELSE b
Max(a, b) == IF a > b THEN a ELSE b

\* struct ClassificationStats, zeroed
ZeroStats == [total_sequences |-> 0, total_bases |-> 0, total_classified |-> 0]

RECURSIVE SumSeq(_)
SumSeq(s) == IF s = <<>> THEN 0 ELSE Head(s) + SumSeq(Tail(s))

(***************************************************************************)
(* Taxonomy: internal taxon ids 1..NumTaxa, 1 the root, 0 "no taxon".      *)
(* A taxonomy is given by its parent_id array; the root's parent is 0 and  *)
(* every other node has a smaller id than its children.                    *)
(***************************************************************************)
Taxa == 1..NumTaxa

Taxonomies ==
  {p \in [Taxa -> 0..NumTaxa] :
     /\ p[1] = 0
     /\ \A t \in Taxa \ {1} : 1 <= p[t] /\ p[t] < t}

\* taxonomy.nodes()[t].parent_id
ParentOf(parent, t) == IF t = 0 THEN 0 ELSE parent[t]

\* Taxonomy::IsAAncestorOfB: a lies on the parent chain of b, b included;
\* 0 is no ancestor and has none.  The chain ends at the root, whose parent
\* is 0 or the root itself.
RECURSIVE IsAAncestorOfB(_, _, _)
IsAAncestorOfB(parent, a, b) ==
  IF a = 0 \/ b = 0 THEN FALSE
  ELSE IF a = b THEN TRUE
  ELSE IF parent[b] = b THEN FALSE
  ELSE IsAAncestorOfB(parent, a, parent[b])

\* Taxonomy::LowestCommonAncestor: the deepest node on both parent chains;
\* the other operand if one is 0.
RECURSIVE LowestCommonAncestor(_, _, _)
LowestCommonAncestor(parent, a, b) ==
  IF a = 0 \/ b = 0 THEN (IF a # 0 THEN a ELSE b)
  ELSE IF IsAAncestorOfB(parent, a, b) THEN a
  ELSE LowestCommonAncestor(parent, parent[a], b)

(***************************************************************************)
(* ResolveTree.  hit_counts is a function from the taxa hit to their       *)
(* counts; order is the order in which the unordered map is iterated.      *)
(* confidence_threshold is given in quarters (3 stands for 0.75).          *)
(***************************************************************************)
Thresholds == {0, 2, 3, 4}

\* uint32_t required_score = ceil(opts.confidence_threshold * total_minimizers).
\* A value beyond the range of uint32_t converts to an unspecified value,
\* given here as overflow_value.
RequiredScore(threshold, total_minimizers, overflow_value) ==
  LET exact == (threshold * total_minimizers + 3) \div 4 IN
    IF exact > UINT32_MAX THEN overflow_value ELSE exact

\* The values an out-of-range conversion is taken to produce
OverflowValues == {0, UINT32_MAX}

RECURSIVE SumCounts(_, _)
SumCounts(hc, S) ==
  IF S = {} THEN 0
  ELSE LET t == CHOOSE x \in S : TRUE IN hc[t] + SumCounts(hc, S \ {t})

\* A score that sums the hits in the clade below taxon instead of the hits
\* on the path from the root to it
ScoreSwapped(parent, hc, taxon) ==
  SumCounts(hc, {taxon2 \in DOMAIN hc : IsAAncestorOfB(parent, taxon, taxon2)})

\* Inner loop of phase 1: the hits of every taxon2 of hit_counts with
\* IsAAncestorOfB(taxon2, taxon)
Score(parent, hc, taxon) ==
  SumCounts(hc, {taxon2 \in DOMAIN hc : IsAAncestorOfB(parent, taxon2, taxon)})

\* A tie that keeps the running winner
TieKeepsWinner(parent, max_taxon, taxon) == max_taxon

\* score == max_score: the running winner becomes the LCA of both
TieBreak(parent, max_taxon, taxon) == LowestCommonAncestor(parent, max_taxon, taxon)

\* One iteration of the outer loop of phase 1
Phase1Step(parent, hc, st, taxon) ==
  LET score == Score(parent, hc, taxon) IN
    IF score > st.max_score
      THEN [max_taxon |-> taxon, max_score |-> score]
    ELSE IF score = st.max_score
      THEN [max_taxon |-> TieBreak(parent, st.max_taxon, taxon),
            max_score |-> st.max_score]
    ELSE st

\* A phase 1 that starts with the root as the running winner
RECURSIVE Phase1FromRoot(_, _, _, _)
Phase1FromRoot(parent, hc, order, n) ==
  IF n = 0 THEN [max_taxon |-> 1, max_score |-> 0]
  ELSE Phase1Step(parent, hc, Phase1FromRoot(parent, hc, order, n - 1), order[n])

\* Phase 1 over the first n taxa of the iteration order
RECURSIVE Phase1(_, _, _, _)
Phase1(parent, hc, order, n) ==
  IF n = 0 THEN [max_taxon |-> 0, max_score |-> 0]
  ELSE Phase1Step(parent, hc, Phase1(parent, hc, order, n - 1), order[n])

\* hit_counts[max_taxon]: operator[] inserts the key with count 0 if absent
WithKey(hc, t) ==
  IF t \in DOMAIN hc THEN hc ELSE [u \in DOMAIN hc \cup {t} |-> IF u = t THEN 0 ELSE hc[u]]

\* Hits at max_taxon and within its clade
CladeHits(parent, hc, max_taxon) ==
  SumCounts(hc, {taxon \in DOMAIN hc : IsAAncestorOfB(parent, max_taxon, taxon)})

\* A climb that stops only when the score exceeds the required score
EnoughSupportStrict(score, required_score) == score > required_score

\* max_score >= required_score
EnoughSupport(score, required_score) == score >= required_score

\* The while loop of phase 2
RECURSIVE Climb(_, _, _, _, _)
Climb(parent, hc, max_taxon, max_score, required_score) ==
  IF max_taxon = 0 \/ EnoughSupport(max_score, required_score) THEN max_taxon
  ELSE LET clade == CladeHits(parent, hc, max_taxon) IN
         IF EnoughSupport(clade, required_score) THEN max_taxon
         ELSE Climb(parent, hc, ParentOf(parent, max_taxon), clade, required_score)

\* ResolveTree: the call, with the phase-1 scores and winner and the
\* hit_counts it leaves behind
ResolveTree(parent, hc, order, total_minimizers, threshold, overflow_value) ==
  LET required_score == RequiredScore(threshold, total_minimizers, overflow_value)
      p1 == Phase1(parent, hc, order, Len(order))
      hc2 == WithKey(hc, p1.max_taxon)
  IN  [returned |-> TRUE,
       call |-> Climb(parent, hc2, p1.max_taxon, hc2[p1.max_taxon], required_score),
       winner |-> p1.max_taxon,
       scores |-> [t \in DOMAIN hc |-> Score(parent, hc, t)],
       required_score |-> required_score,
       hit_counts |-> hc2]

\* The orders in which a map with the given keys can be iterated
Orders(keys) ==
  {o \in [1..Cardinality(keys) -> keys] : \A i, j \in 1..Cardinality(keys) : o[i] = o[j] => i = j}

\* The hit_counts maps: at most MaxKeys taxa, each hit 1..MaxHits times
HitCountMaps ==
  UNION {[K -> 1..MaxHits] : K \in {S \in SUBSET Taxa : Cardinality(S) <= MaxKeys}}

VARIABLES
  resolve_args,  \* arguments of a ResolveTree call
  resolve_ret    \* what the call returned, NotReturned before it

rvars == <<resolve_args, resolve_ret>>

NoArgs == [none |-> TRUE]
NotReturned == [returned |-> FALSE]

ResolveIdle == resolve_args = NoArgs /\ resolve_ret = NotReturned

\* total_minimizers counts every hit and up to MaxMisses minimizers
\* that hit nothing
ResolveInit ==
  /\ resolve_args \in
       {[taxonomy |-> p, hit_counts |-> hc, confidence_threshold |-> th,
         total_minimizers |-> SumCounts(hc, DOMAIN hc) + m] :
        p \in Taxonomies, hc \in HitCountMaps, th \in Thresholds, m \in 0..MaxMisses}
  /\ resolve_ret = NotReturned

CallResolveTree ==
  /\ ~resolve_ret.returned
  /\ resolve_args # NoArgs
  /\ \E order \in Orders(DOMAIN resolve_args.hit_counts), ov \in OverflowValues :
       resolve_ret' = ResolveTree(resolve_args.taxonomy, resolve_args.hit_counts, order,
                                  resolve_args.total_minimizers,
                                  resolve_args.confidence_threshold, ov)
  /\ UNCHANGED resolve_args

(***************************************************************************)
(* ClassifySequence, one step per minimizer the scanner returns.           *)
(***************************************************************************)
MATE_PAIR_BORDER_TAXON == TAXID_MAX
READING_FRAME_BORDER_TAXON == TAXID_MAX - 1
AMBIGUOUS_SPAN_TAXON == TAXID_MAX - 2

Minimizers == 1..NumMinimizers

\* What the scanner returned, in the ghost variable scanned: a minimizer,
\* an ambiguous minimizer, or the end of the loaded sequence
AmbiguousEvent == 0
EndOfSequence == -1

\* taxonomy.nodes()[t].external_id
ExternalId(t) == 10 * t

\* MurmurHash3 of a minimizer
MurmurHash3(m) == m - 1

\* One piece of the hitlist string
Piece(t, id, n) == [t |-> t, id |-> id, n |-> n]
Space == Piece(" ", 0, 0)

\* What AddHitlistString prints for one run; the run that ends the trail
\* is printed by the code after the loop
RunText(last_code, code_count, final) ==
  IF last_code # MATE_PAIR_BORDER_TAXON /\ last_code # READING_FRAME_BORDER_TAXON
    THEN IF last_code = AMBIGUOUS_SPAN_TAXON
           THEN <<Piece("A", 0, code_count), Space>>
           ELSE IF final THEN <<Piece("taxon", ExternalId(last_code), code_count)>>
                ELSE <<Piece("taxon", ExternalId(last_code), code_count), Space>>
    ELSE IF final
           THEN <<Piece(IF last_code = MATE_PAIR_BORDER_TAXON THEN "|:|" ELSE "-:-", 0, 0)>>
           ELSE <<Piece(IF last_code = MATE_PAIR_BORDER_TAXON THEN "|:|" ELSE "-:-", 0, 0),
                  Space>>

\* The loop of AddHitlistString from index i on
RECURSIVE HitlistFrom(_, _, _, _)
HitlistFrom(trail, i, last_code, code_count) ==
  IF i > Len(trail) THEN RunText(last_code, code_count, TRUE)
  ELSE IF trail[i] = last_code THEN HitlistFrom(trail, i + 1, last_code, code_count + 1)
  ELSE RunText(last_code, code_count, FALSE) \o HitlistFrom(trail, i + 1, trail[i], 1)

\* AddHitlistString, called on a non-empty trail
AddHitlistString(trail) == HitlistFrom(trail, 2, trail[1], 1)

VARIABLES
  c_opts,             \* Options consumed by ClassifySequence
  idx,                \* the index: hash->Get and minimum_acceptable_hash_value
  c_taxonomy,         \* parent_id array of the taxonomy
  cpc,                \* position in ClassifySequence
  mate_num,
  frame_idx,
  last_minimizer,
  last_taxon,
  minimizer_hit_groups,
  hit_counts,
  taxa,               \* the trail
  call,               \* local variable call / returned value
  koss,               \* the output lines appended to koss
  c_stats,            \* ClassificationStats passed in (total_classified)
  curr_taxon_counts,  \* per taxon: read count and minimizers added
  scanned             \* all the scanner returned so far, in order

cvars == <<c_opts, idx, c_taxonomy, cpc, mate_num, frame_idx, last_minimizer,
           last_taxon, minimizer_hit_groups, hit_counts, taxa, call, koss,
           c_stats, curr_taxon_counts, scanned>>

EmptyMap == [t \in {} |-> 0]

NoCounters == [t \in Taxa |-> [reads |-> 0, kmers |-> {}]]

ClassifyOptions ==
  [paired_end_processing : BOOLEAN, use_translated_search : BOOLEAN,
   quick_mode : BOOLEAN, minimum_hit_groups : 0..MaxMinHitGroups,
   confidence_threshold : {0, 4}, report : BOOLEAN]

\* The taxa the index maps minimizers to
IndexTaxa == {0, 2, 3}

Indexes ==
  {[hash |-> h, minimum_acceptable_hash_value |-> 0] : h \in [Minimizers -> IndexTaxa]}
  \cup {[hash |-> [m \in Minimizers |-> 2], minimum_acceptable_hash_value |-> 1]}

ClassifyTaxonomies == {p \in Taxonomies : \A t \in Taxa : t > 3 => p[t] = 1}

\* The calls of ClassifySequence that are run: every option set on every
\* index and taxonomy without translated search; with translated search
\* (six frames per mate), every option set with the report on, on the
\* taxonomy whose taxa are all children of the root and on the indexes
\* that map the first minimizer to taxon 2
ClassifyInputs ==
  {in \in [o : ClassifyOptions, i : Indexes, p : ClassifyTaxonomies] :
     in.o.use_translated_search =>
       /\ in.o.report
       /\ in.i.minimum_acceptable_hash_value = 0
       /\ in.i.hash[1] = 2
       /\ \A t \in Taxa \ {1} : in.p[t] = 1}

ClassifyIdle ==
  /\ cpc = "idle"
  /\ mate_num = 0
  /\ frame_idx = 0
  /\ last_minimizer = UINT64_MAX
  /\ last_taxon = TAXID_MAX
  /\ minimizer_hit_groups = 0
  /\ hit_counts = EmptyMap
  /\ taxa = <<>>
  /\ call = 0
  /\ koss = <<>>
  /\ c_stats = ZeroStats
  /\ curr_taxon_counts = NoCounters
  /\ scanned = <<>>

\* ClassifySequence has been entered: call = 0, taxa and hit_counts
\* cleared, the first sequence loaded into the scanner
ClassifyInit ==
  /\ \E in \in ClassifyInputs :
       c_opts = in.o /\ idx = in.i /\ c_taxonomy = in.p
  /\ cpc = "scan"
  /\ mate_num = 0
  /\ frame_idx = 0
  /\ last_minimizer = UINT64_MAX
  /\ last_taxon = TAXID_MAX
  /\ minimizer_hit_groups = 0
  /\ hit_counts = EmptyMap
  /\ taxa = <<>>
  /\ call = 0
  /\ koss = <<>>
  /\ c_stats = ZeroStats
  /\ curr_taxon_counts = NoCounters
  /\ scanned = <<>>

frame_ct == IF c_opts.use_translated_search THEN 6 ELSE 1

\* The scanner returned at most MaxMinimizers minimizers so far
MayScan == Len(SelectSeq(scanned, LAMBDA e : e # EndOfSequence)) < MaxMinimizers

\* hit_counts[taxon]++
Increment(hc, t) ==
  IF t \in DOMAIN hc THEN [hc EXCEPT ![t] = @ + 1]
  ELSE [u \in DOMAIN hc \cup {t} |-> IF u = t THEN 1 ELSE hc[u]]

\* An ambiguous minimizer after which the last minimizer and its taxon
\* are forgotten
ScanAmbiguousForgetsLast ==
  /\ cpc = "scan"
  /\ MayScan
  /\ scanned' = Append(scanned, AmbiguousEvent)
  /\ taxa' = Append(taxa, AMBIGUOUS_SPAN_TAXON)
  /\ last_minimizer' = UINT64_MAX
  /\ last_taxon' = TAXID_MAX
  /\ UNCHANGED <<c_opts, idx, c_taxonomy, cpc, mate_num, frame_idx,
                 minimizer_hit_groups, hit_counts, call, koss, c_stats,
                 curr_taxon_counts>>

\* scanner.is_ambiguous(): the trail gets AMBIGUOUS_SPAN_TAXON
ScanAmbiguous ==
  /\ cpc = "scan"
  /\ MayScan
  /\ scanned' = Append(scanned, AmbiguousEvent)
  /\ taxa' = Append(taxa, AMBIGUOUS_SPAN_TAXON)
  /\ UNCHANGED <<c_opts, idx, c_taxonomy, cpc, mate_num, frame_idx,
                 last_minimizer, last_taxon, minimizer_hit_groups, hit_counts,
                 call, koss, c_stats, curr_taxon_counts>>

\* hash->Get behind the minimum_acceptable_hash_value filter
Lookup(m) ==
  IF idx.minimum_acceptable_hash_value # 0
     /\ MurmurHash3(m) < idx.minimum_acceptable_hash_value
    THEN 0
    ELSE idx.hash[m]

\* The scanner returned the unambiguous minimizer m
ScanMinimizer(m) ==
  /\ cpc = "scan"
  /\ MayScan
  /\ scanned' = Append(scanned, m)
  /\ LET fresh == m # last_minimizer
         taxon == IF fresh THEN Lookup(m) ELSE last_taxon
         groups == IF fresh /\ taxon # 0 THEN minimizer_hit_groups + 1
                   ELSE minimizer_hit_groups
         quick_exit == /\ taxon # 0
                       /\ c_opts.quick_mode
                       /\ groups >= c_opts.minimum_hit_groups
     IN
       /\ last_taxon' = taxon
       /\ last_minimizer' = m
       /\ minimizer_hit_groups' = groups
       /\ curr_taxon_counts' =
            IF fresh /\ taxon # 0 /\ c_opts.report
              THEN [curr_taxon_counts EXCEPT ![taxon].kmers = @ \cup {m}]
              ELSE curr_taxon_counts
       /\ IF quick_exit
            THEN /\ call' = taxon
                 /\ cpc' = "finished_searching"
                 /\ UNCHANGED <<hit_counts, taxa>>
            ELSE /\ hit_counts' = IF taxon # 0 THEN Increment(hit_counts, taxon)
                                  ELSE hit_counts
                 /\ taxa' = Append(taxa, taxon)
                 /\ UNCHANGED <<call, cpc>>
  /\ UNCHANGED <<c_opts, idx, c_taxonomy, mate_num, frame_idx, koss, c_stats>>

\* last_minimizer as set when the scan of a frame begins, given what it
\* was at the end of the frame before: one that is never reset
LastMinimizerKept(previous) == previous

\* uint64_t last_minimizer = UINT64_MAX, inside the loop over the frames
LastMinimizerAtFrameStart(previous) == UINT64_MAX

\* A border that is pushed after the frames of either mate
MateBorderAfterEachMate(o, mate) ==
  IF o.paired_end_processing THEN <<MATE_PAIR_BORDER_TAXON>> ELSE <<>>

\* if (opts.paired_end_processing && mate_num == 0)
\*   taxa.push_back(MATE_PAIR_BORDER_TAXON), after the loop over the frames
MateBorder(o, mate) ==
  IF o.paired_end_processing /\ mate = 0 THEN <<MATE_PAIR_BORDER_TAXON>> ELSE <<>>

\* The scanner returned nullptr: the frame is over.  The borders are
\* pushed; unless this was the last frame of the last mate, the next
\* sequence is loaded and last_minimizer and last_taxon are set anew.
EndOfFrame ==
  /\ cpc = "scan"
  /\ scanned' = Append(scanned, EndOfSequence)
  /\ LET last_frame == frame_idx = frame_ct - 1
         frame_border == IF c_opts.use_translated_search /\ frame_idx # 5
                           THEN <<READING_FRAME_BORDER_TAXON>> ELSE <<>>
         mate_border == IF last_frame THEN MateBorder(c_opts, mate_num) ELSE <<>>
         last_mate == mate_num = 1 \/ ~c_opts.paired_end_processing
     IN
       /\ taxa' = taxa \o frame_border \o mate_border
       /\ IF last_frame /\ last_mate
            THEN /\ cpc' = "finished_searching"
                 /\ UNCHANGED <<mate_num, frame_idx, last_minimizer, last_taxon>>
            ELSE /\ frame_idx' = IF last_frame THEN 0 ELSE frame_idx + 1
                 /\ mate_num' = IF last_frame THEN mate_num + 1 ELSE mate_num
                 /\ last_minimizer' = LastMinimizerAtFrameStart(last_minimizer)
                 /\ last_taxon' = TAXID_MAX
                 /\ cpc' = "scan"
  /\ UNCHANGED <<c_opts, idx, c_taxonomy, minimizer_hit_groups, hit_counts,
                 call, koss, c_stats, curr_taxon_counts>>

\* size_t total_kmers: the trail length less the markers, modulo 2^64
TotalKmers(trail_size, o) ==
  (trail_size
     - (IF o.paired_end_processing THEN 1 ELSE 0)
     - (IF o.use_translated_search
          THEN (IF o.paired_end_processing THEN 4 ELSE 2) ELSE 0)
     + SIZE_MODULUS) % SIZE_MODULUS

\* call = ResolveTree(...), whatever call was at finished_searching
CallAfterSearch(scan_call, resolved_call) == resolved_call

\* A call that is not voided
VoidedNever(c, groups, minimum_hit_groups) == c

\* if (call && minimizer_hit_groups < opts.minimum_hit_groups) call = 0
Voided(c, groups, minimum_hit_groups) ==
  IF c # 0 /\ groups < minimum_hit_groups THEN 0 ELSE c

\* The line written to koss: C or U, the external id of the call and the
\* hitlist (the header and the lengths are those of the input)
OutputLine(c, trail, o) ==
  [status |-> IF c # 0 THEN "C" ELSE "U",
   ext_call |-> ExternalId(c),
   hitlist |-> IF o.quick_mode THEN <<Piece("Q", ExternalId(c), 0)>>
               ELSE IF trail = <<>> THEN <<Piece("taxon", 0, 0)>>
               ELSE AddHitlistString(trail)]

\* From finished_searching to the return
FinishClassify ==
  /\ cpc = "finished_searching"
  /\ \E order \in Orders(DOMAIN hit_counts), ov \in OverflowValues :
       LET total_kmers == TotalKmers(Len(taxa), c_opts)
           res == ResolveTree(c_taxonomy, hit_counts, order, total_kmers,
                              c_opts.confidence_threshold, ov)
           final == Voided(CallAfterSearch(call, res.call), minimizer_hit_groups,
                           c_opts.minimum_hit_groups)
       IN
         /\ hit_counts' = res.hit_counts
         /\ call' = final
         /\ c_stats' = IF final # 0
                         THEN [c_stats EXCEPT !.total_classified = @ + 1]
                         ELSE c_stats
         /\ curr_taxon_counts' =
              IF final # 0 /\ c_opts.report
                THEN [curr_taxon_counts EXCEPT ![final].reads = @ + 1]
                ELSE curr_taxon_counts
         /\ koss' = Append(koss, OutputLine(final, taxa, c_opts))
  /\ cpc' = "returned"
  /\ UNCHANGED <<c_opts, idx, c_taxonomy, mate_num, frame_idx, last_minimizer,
                 last_taxon, minimizer_hit_groups, taxa, scanned>>

(***************************************************************************)
(* Driver state (ProcessFiles).                                            *)
(***************************************************************************)
VARIABLES
  opts,                  \* Options consumed by the driver
  input,                 \* the batches the sequence reader will deliver
  reader_pos,            \* number of batches already delivered
  next_input_block_id,
  next_output_block_id,
  output_queue,          \* priority queue of OutputData, as a set
  queue_owner,           \* worker inside critical(output_queue), or NoWorker
  output_lock,           \* holder of omp lock output_lock, or NoWorker
  buffers,               \* number of spare OutputData in the pool
  pool_underflow,        \* pop_back was executed on an empty pool
  outputs,               \* OutputStreamData: initialized flag and open sinks
  sinks,                 \* text written so far to each output stream
  written,               \* block ids in the order they were written
  stats,                 \* aggregate ClassificationStats
  total_taxon_counters,  \* aggregate per-taxon read counts
  pc,                    \* per worker: position in the worker loop
  block_id,              \* per worker: claimed block id
  batch,                 \* per worker: fragments loaded by the reader
  oss,                   \* per worker: kraken_oss, c1_oss, c2_oss, u1_oss, u2_oss
  thread_stats,          \* per worker: thread-local ClassificationStats
  thread_taxon_counters, \* per worker: thread-local per-taxon read counts
  out_data,              \* per worker: OutputData being pushed or written
  borrowed_buffer        \* per worker: flag of the drain loop

dvars == <<opts, input, reader_pos, next_input_block_id, next_output_block_id,
           output_queue, queue_owner, output_lock, buffers, pool_underflow,
           outputs, sinks, written, stats, total_taxon_counters, pc, block_id,
           batch, oss, thread_stats, thread_taxon_counters, out_data,
           borrowed_buffer>>

Streams == {"kraken", "c1", "c2", "u1", "u2"}

EmptyStrings == [s \in Streams |-> <<>>]

\* struct OutputData; a default-constructed or moved-from object has empty strings
EmptyData == [block_id |-> 0, str |-> EmptyStrings]

ZeroCounters == [t \in Calls \ {0} |-> 0]

\* A fragment as delivered by the reader: its position in the input, the
\* length of its sequence(s) and the call ClassifySequence makes for it.
Fragment(id, c) == [id |-> id, call |-> c]

SeqLen(f) == f.id

\* The inputs: every sequence of at most MaxInputFragments fragments, given
\* by the call each fragment gets
Inputs == UNION {[1..n -> Calls] : n \in 0..MaxInputFragments}

\* The reader cuts the input into batches of FragmentsPerBatch fragments,
\* the last one possibly shorter
NumBatches(in) == (Len(in) + FragmentsPerBatch - 1) \div FragmentsPerBatch

Offset(b) == (b - 1) * FragmentsPerBatch

\* The fragments of batch b, numbered in input order
BatchOf(in, b) ==
  [i \in 1..Min(FragmentsPerBatch, Len(in) - Offset(b)) |->
     Fragment(Offset(b) + i, in[Offset(b) + i])]

\* Every fragment of the input, in input order
AllFragments(in) == [k \in 1..Len(in) |-> Fragment(k, in[k])]

\* The option sets the driver is run with
\* one_hash: the classified and unclassified output filenames contain
\* exactly one # character
DriverOptions ==
  { [num_threads |-> t, paired_end_processing |-> c[1], classified_output |-> c[2],
     unclassified_output |-> c[3], kraken_silenced |-> c[4], report |-> c[5],
     one_hash |-> c[6]] :
    t \in 1..MaxWorkers,
    c \in { <<FALSE, TRUE, TRUE, FALSE, FALSE, FALSE>>,
            <<TRUE, TRUE, TRUE, TRUE, TRUE, TRUE>>,
            <<TRUE, TRUE, TRUE, FALSE, FALSE, FALSE>> } }

\* OutputStreamData as built by classify(): only kraken_output is open (stdout)
InitialOutputs == [initialized |-> FALSE, open |-> {"kraken"}]

\* The driver state of ProcessFiles before the parallel region
DriverIdle ==
  /\ reader_pos = 0
  /\ next_input_block_id = 0
  /\ next_output_block_id = 0
  /\ output_queue = {}
  /\ queue_owner = NoWorker
  /\ output_lock = NoWorker
  /\ buffers = 2 * opts.num_threads
  /\ pool_underflow = FALSE
  /\ outputs = InitialOutputs
  /\ sinks = EmptyStrings
  /\ written = <<>>
  /\ stats = ZeroStats
  /\ total_taxon_counters = ZeroCounters
  /\ pc = [w \in Workers |-> IF w <= opts.num_threads THEN "read" ELSE "done"]
  /\ block_id = [w \in Workers |-> 0]
  /\ batch = [w \in Workers |-> <<>>]
  /\ oss = [w \in Workers |-> EmptyStrings]
  /\ thread_stats = [w \in Workers |-> ZeroStats]
  /\ thread_taxon_counters = [w \in Workers |-> ZeroCounters]
  /\ out_data = [w \in Workers |-> EmptyData]
  /\ borrowed_buffer = [w \in Workers |-> FALSE]

DriverInit ==
  /\ opts \in DriverOptions
  /\ input \in Inputs
  /\ DriverIdle

(***************************************************************************)
(* The worker loop of ProcessFiles.                                        *)
(***************************************************************************)

\* errx was not called: the process and its threads are alive
ProcessAlive == \A v \in Workers : pc[v] # "errx"

\* thread_stats at the head of the worker loop, given what it was at the
\* end of the iteration before: one that is never reset
ThreadStatsKept(previous) == previous

\* One whose total_classified is not reset
ClassifiedKept(previous) ==
  [total_sequences |-> 0, total_bases |-> 0,
   total_classified |-> previous.total_classified]

\* thread_stats.total_sequences = 0; total_bases = 0; total_classified = 0
ResetThreadStats(previous) == ZeroStats

\* A claim that leaves next_input_block_id as it was
BlockIdKept(next) == next

\* The post-increment of block_id = next_input_block_id++
BlockIdAdvanced(next) == next + 1

\* critical(seqread): load one batch and claim a block id, also when the
\* read returned nothing; then leave the loop if nothing was read.
ReadBatch(w) ==
  /\ pc[w] = "read"
  /\ ProcessAlive
  /\ LET ok_read == reader_pos < NumBatches(input) IN
       /\ reader_pos' = IF ok_read THEN reader_pos + 1 ELSE reader_pos
       /\ batch' = [batch EXCEPT ![w] =
                      IF ok_read THEN BatchOf(input, reader_pos + 1) ELSE <<>>]
       /\ pc' = [pc EXCEPT ![w] = IF ok_read THEN "classify" ELSE "done"]
  /\ thread_stats' = [thread_stats EXCEPT ![w] = ResetThreadStats(thread_stats[w])]
  /\ block_id' = [block_id EXCEPT ![w] = next_input_block_id]
  /\ next_input_block_id' = BlockIdAdvanced(next_input_block_id)
  /\ UNCHANGED <<opts, input, next_output_block_id, output_queue, queue_owner,
                 output_lock, buffers, pool_underflow, outputs, sinks, written,
                 stats, total_taxon_counters, oss, thread_taxon_counters,
                 out_data, borrowed_buffer>>

\* The line ClassifySequence appends to kraken_oss for fragment f: C or U
\* and the external id of the call it returns
KrakenLine(f) ==
  LET line == OutputLine(f.call, <<>>, [quick_mode |-> FALSE]) IN
    [id |-> f.id, status |-> line.status, ext_call |-> line.ext_call]

\* A header that got no suffix
NoSuffix == -1

\* seq->to_string() of one mate of fragment f; suffix is the external id
\* of " kraken:taxid|<id>" appended to the header, NoSuffix if none
SequenceRecord(f, mate, suffix) == [id |-> f.id, mate |-> mate, suffix |-> suffix]

\* A routing that takes every fragment as classified
ClassifiedRouteAlways(c) == TRUE

\* if (call): the fragment goes to the classified streams
ClassifiedRoute(c) == c # 0

\* The text one fragment adds to each thread-local stream
FragmentText(f, paired) ==
  LET classified == ClassifiedRoute(f.call) IN
  [s \in Streams |->
     CASE s = "kraken" -> <<KrakenLine(f)>>
       [] s = "c1" -> IF classified
                        THEN <<SequenceRecord(f, 1, ExternalId(f.call))>> ELSE <<>>
       [] s = "c2" -> IF classified /\ paired
                        THEN <<SequenceRecord(f, 2, ExternalId(f.call))>> ELSE <<>>
       [] s = "u1" -> IF ~classified THEN <<SequenceRecord(f, 1, NoSuffix)>> ELSE <<>>
       [] s = "u2" -> IF ~classified /\ paired
                        THEN <<SequenceRecord(f, 2, NoSuffix)>> ELSE <<>>]

RECURSIVE BatchText(_, _)
BatchText(b, paired) ==
  IF b = <<>> THEN EmptyStrings
  ELSE LET rest == BatchText(Tail(b), paired)
           one == FragmentText(Head(b), paired)
       IN  [s \in Streams |-> one[s] \o rest[s]]

BatchBases(b, paired) ==
  SumSeq([i \in 1..Len(b) |-> IF paired THEN 2 * SeqLen(b[i]) ELSE SeqLen(b[i])])

BatchClassified(b) == Cardinality({i \in 1..Len(b) : b[i].call # 0})

BatchCounters(b) ==
  [t \in Calls \ {0} |-> Cardinality({i \in 1..Len(b) : b[i].call = t})]

\* Thread-local counters that keep what the block before left in them
CountersKept(previous) == previous

\* thread_taxon_counters.clear()
ClearedCounters(previous) == ZeroCounters

\* The fragment loop: reset the thread-local streams and counters, classify
\* every fragment of the batch.
ClassifyBatch(w) ==
  /\ pc[w] = "classify"
  /\ ProcessAlive
  /\ oss' = [oss EXCEPT ![w] = BatchText(batch[w], opts.paired_end_processing)]
  /\ thread_stats' = [thread_stats EXCEPT ![w] =
       [total_sequences |-> thread_stats[w].total_sequences + Len(batch[w]),
        total_bases |-> thread_stats[w].total_bases
                          + BatchBases(batch[w], opts.paired_end_processing),
        total_classified |-> thread_stats[w].total_classified
                               + BatchClassified(batch[w])]]
  /\ thread_taxon_counters' = [thread_taxon_counters EXCEPT ![w] =
       LET cleared == ClearedCounters(thread_taxon_counters[w]) IN
         IF opts.report
           THEN [t \in Calls \ {0} |-> cleared[t] + BatchCounters(batch[w])[t]]
           ELSE cleared]
  /\ pc' = [pc EXCEPT ![w] = "stats"]
  /\ UNCHANGED <<opts, input, reader_pos, next_input_block_id,
                 next_output_block_id, output_queue, queue_owner, output_lock,
                 buffers, pool_underflow, outputs, sinks, written, stats,
                 total_taxon_counters, block_id, batch, out_data,
                 borrowed_buffer>>

\* critical(output_stats)
UpdateStats(w) ==
  /\ pc[w] = "stats"
  /\ ProcessAlive
  /\ stats' =
       [total_sequences |-> stats.total_sequences + thread_stats[w].total_sequences,
        total_bases |-> stats.total_bases + thread_stats[w].total_bases,
        total_classified |-> stats.total_classified + thread_stats[w].total_classified]
  /\ pc' = [pc EXCEPT ![w] = IF outputs.initialized THEN "push" ELSE "init"]
  /\ UNCHANGED <<opts, input, reader_pos, next_input_block_id,
                 next_output_block_id, output_queue, queue_owner, output_lock,
                 buffers, pool_underflow, outputs, sinks, written,
                 total_taxon_counters, block_id, batch, oss, thread_stats,
                 thread_taxon_counters, out_data, borrowed_buffer>>

\* fields.size() < 2 or fields.size() > 2 for a filename of a paired run
BadPairedFilename(o) ==
  /\ o.paired_end_processing
  /\ o.classified_output \/ o.unclassified_output
  /\ ~o.one_hash

\* The sinks InitializeOutputs opens for the given options
OpenedSinks(o) ==
  (IF o.classified_output
     THEN (IF o.paired_end_processing THEN {"c1", "c2"} ELSE {"c1"}) ELSE {})
  \cup (IF o.unclassified_output
          THEN (IF o.paired_end_processing THEN {"u1", "u2"} ELSE {"u1"}) ELSE {})
  \cup (IF o.kraken_silenced THEN {} ELSE {"kraken"})

\* InitializeOutputs: critical(output_init), does nothing if already
\* initialized; errx ends the process on a bad filename of a paired run
InitializeOutputs(w) ==
  /\ pc[w] = "init"
  /\ ProcessAlive
  /\ IF ~outputs.initialized /\ BadPairedFilename(opts)
       THEN /\ pc' = [pc EXCEPT ![w] = "errx"]
            /\ UNCHANGED outputs
       ELSE /\ outputs' = IF outputs.initialized THEN outputs
                          ELSE [initialized |-> TRUE, open |-> OpenedSinks(opts)]
            /\ pc' = [pc EXCEPT ![w] = "push"]
  /\ UNCHANGED <<opts, input, reader_pos, next_input_block_id,
                 next_output_block_id, output_queue, queue_owner, output_lock,
                 buffers, pool_underflow, sinks, written, stats,
                 total_taxon_counters, block_id, batch, oss, thread_stats,
                 thread_taxon_counters, out_data, borrowed_buffer>>

\* Fill out_data from the thread-local streams and move it into the queue
\* (critical(output_queue)); out_data is left moved-from.
PushBlock(w) ==
  /\ pc[w] = "push"
  /\ ProcessAlive
  /\ queue_owner = NoWorker
  /\ output_queue' = output_queue \cup {[block_id |-> block_id[w], str |-> oss[w]]}
  /\ out_data' = [out_data EXCEPT ![w] = EmptyData]
  /\ borrowed_buffer' = [borrowed_buffer EXCEPT ![w] = FALSE]
  /\ pc' = [pc EXCEPT ![w] = IF opts.report THEN "counters" ELSE "drain"]
  /\ UNCHANGED <<opts, input, reader_pos, next_input_block_id,
                 next_output_block_id, queue_owner, output_lock, buffers,
                 pool_underflow, outputs, sinks, written, stats,
                 total_taxon_counters, block_id, batch, oss, thread_stats,
                 thread_taxon_counters>>

\* critical(update_taxon_counters)
UpdateTaxonCounters(w) ==
  /\ pc[w] = "counters"
  /\ ProcessAlive
  /\ total_taxon_counters' =
       [t \in Calls \ {0} |-> total_taxon_counters[t] + thread_taxon_counters[w][t]]
  /\ pc' = [pc EXCEPT ![w] = "drain"]
  /\ UNCHANGED <<opts, input, reader_pos, next_input_block_id,
                 next_output_block_id, output_queue, queue_owner, output_lock,
                 buffers, pool_underflow, outputs, sinks, written, stats,
                 block_id, batch, oss, thread_stats, thread_taxon_counters,
                 out_data, borrowed_buffer>>

\* A comparator with the inverted sense: top() is the greatest block_id
TopGreatest(q) == CHOOSE d \in q : \A e \in q : d.block_id >= e.block_id

\* output_queue.top() under the comparator a.block_id > b.block_id: the
\* queued block with the least block_id
Top(q) == CHOOSE d \in q : \A e \in q : d.block_id <= e.block_id

\* A drain that pops whatever block is at the head of the queue
HeadMatchesAlways(q, next) == TRUE

\* output_queue.top().block_id == next_output_block_id
HeadMatches(q, next) == Top(q).block_id = next

\* A drain that gives no buffer back to the pool
GiveBackNothing(pool) == pool

\* buffers.push_back(std::move(out_data)): the pool after a worker that
\* wrote a block finds the queue non-empty again
GiveBack(pool) == pool + 1

\* A drain that leaves the critical section before it takes the lock
OwnerReleased(w) == NoWorker

\* Who is inside critical(output_queue) when worker w, having popped the
\* head, reaches omp_set_lock: w itself, the call is inside the block
OwnerAtSetLock(w) == w

\* First part of critical(output_queue) in the drain loop, up to
\* omp_set_lock: exchange buffers with the pool and, if the head of the
\* queue is the next block to write, pop it.  The worker stays inside the
\* critical section until it holds the output lock.
DrainEnter(w) ==
  /\ pc[w] = "drain"
  /\ ProcessAlive
  /\ queue_owner = NoWorker
  /\ LET output_loop == output_queue # {}
         take_unguarded == ~output_loop /\ ~borrowed_buffer[w]
         give_back == borrowed_buffer[w] /\ output_loop
         pool1 == IF take_unguarded THEN Max(buffers - 1, 0)
                  ELSE IF give_back THEN GiveBack(buffers) ELSE buffers
         matches == output_loop /\ HeadMatches(output_queue, next_output_block_id)
     IN
       /\ pool_underflow' = (pool_underflow \/ (take_unguarded /\ buffers = 0))
       /\ IF matches
            THEN /\ out_data' = [out_data EXCEPT ![w] = Top(output_queue)]
                 /\ output_queue' = output_queue \ {Top(output_queue)}
                 /\ borrowed_buffer' = [borrowed_buffer EXCEPT ![w] = TRUE]
                 /\ buffers' = pool1
                 /\ queue_owner' = OwnerAtSetLock(w)
                 /\ pc' = [pc EXCEPT ![w] = "setlock"]
            ELSE /\ out_data' = [out_data EXCEPT ![w] = EmptyData]
                 /\ buffers' = IF output_loop THEN Max(pool1 - 1, 0) ELSE pool1
                 /\ pc' = [pc EXCEPT ![w] = "read"]
                 /\ UNCHANGED <<output_queue, borrowed_buffer, queue_owner>>
  /\ UNCHANGED <<opts, input, reader_pos, next_input_block_id,
                 next_output_block_id, output_lock, outputs, sinks, written,
                 stats, total_taxon_counters, block_id, batch, oss,
                 thread_stats, thread_taxon_counters>>

\* A lock that never makes its caller wait
LockFreeAlways(lock) == TRUE

\* omp_set_lock returns only when no thread holds the lock
LockFree(lock) == lock = NoWorker

\* omp_set_lock inside the critical section (blocks while the lock is
\* held), next_output_block_id++, end of the critical section.
SetLock(w) ==
  /\ pc[w] = "setlock"
  /\ ProcessAlive
  /\ LockFree(output_lock)
  /\ output_lock' = w
  /\ next_output_block_id' = next_output_block_id + 1
  /\ queue_owner' = NoWorker
  /\ pc' = [pc EXCEPT ![w] = "write"]
  /\ UNCHANGED <<opts, input, reader_pos, next_input_block_id, output_queue,
                 buffers, pool_underflow, outputs, sinks, written, stats,
                 total_taxon_counters, block_id, batch, oss, thread_stats,
                 thread_taxon_counters, out_data, borrowed_buffer>>

\* Write the five strings of out_data to the sinks that are open
WriteBlock(w) ==
  /\ pc[w] = "write"
  /\ ProcessAlive
  /\ sinks' = [s \in Streams |->
                 IF s \in outputs.open THEN sinks[s] \o out_data[w].str[s]
                 ELSE sinks[s]]
  /\ written' = Append(written, out_data[w].block_id)
  /\ pc' = [pc EXCEPT ![w] = "unlock"]
  /\ UNCHANGED <<opts, input, reader_pos, next_input_block_id,
                 next_output_block_id, output_queue, queue_owner, output_lock,
                 buffers, pool_underflow, outputs, stats, total_taxon_counters,
                 block_id, batch, oss, thread_stats, thread_taxon_counters,
                 out_data, borrowed_buffer>>

\* A drain loop that goes back to its head without omp_unset_lock
UnsetLockMissing(w) ==
  /\ pc[w] = "unlock"
  /\ ProcessAlive
  /\ pc' = [pc EXCEPT ![w] = "drain"]
  /\ UNCHANGED <<opts, input, reader_pos, next_input_block_id,
                 next_output_block_id, output_queue, queue_owner, output_lock,
                 buffers, pool_underflow, outputs, sinks, written, stats,
                 total_taxon_counters, block_id, batch, oss, thread_stats,
                 thread_taxon_counters, out_data, borrowed_buffer>>

\* omp_unset_lock, back to the head of the drain loop
UnsetLock(w) ==
  /\ pc[w] = "unlock"
  /\ ProcessAlive
  /\ output_lock' = NoWorker
  /\ pc' = [pc EXCEPT ![w] = "drain"]
  /\ UNCHANGED <<opts, input, reader_pos, next_input_block_id,
                 next_output_block_id, output_queue, queue_owner, buffers,
                 pool_underflow, outputs, sinks, written, stats,
                 total_taxon_counters, block_id, batch, oss, thread_stats,
                 thread_taxon_counters, out_data, borrowed_buffer>>

WorkerStep(w) ==
  \/ ReadBatch(w)
  \/ ClassifyBatch(w)
  \/ UpdateStats(w)
  \/ InitializeOutputs(w)
  \/ PushBlock(w)
  \/ UpdateTaxonCounters(w)
  \/ DrainEnter(w)
  \/ SetLock(w)
  \/ WriteBlock(w)
  \/ UnsetLock(w)

(***************************************************************************)
(* AddHitlistString on its own.                                            *)
(***************************************************************************)
MaxTrailLen == 5

VARIABLES
  hitlist_taxa,  \* the trail AddHitlistString is called with
  hitlist_oss    \* what it wrote to oss, NotWritten before the call

hvars == <<hitlist_taxa, hitlist_oss>>

NotWritten == <<Piece("none", 0, 0)>>

\* The codes a trail is made of: taxa 1 and 2 and the three markers
TrailCodes ==
  {1, 2, AMBIGUOUS_SPAN_TAXON, MATE_PAIR_BORDER_TAXON, READING_FRAME_BORDER_TAXON}

\* The non-empty trails of at most MaxTrailLen codes
Trails == UNION {[1..n -> TrailCodes] : n \in 1..MaxTrailLen}

HitlistIdle == hitlist_taxa = <<>> /\ hitlist_oss = NotWritten

HitlistInit == hitlist_taxa \in Trails /\ hitlist_oss = NotWritten

CallAddHitlistString ==
  /\ hitlist_taxa # <<>>
  /\ hitlist_oss = NotWritten
  /\ hitlist_oss' = AddHitlistString(hitlist_taxa)
  /\ UNCHANGED hitlist_taxa

(***************************************************************************)
(* Quality masking of one fragment (MaskLowQualityBases and its guard in   *)
(* the fragment loop of ProcessFiles).  A quality is given by the code of  *)
(* its character.                                                          *)
(***************************************************************************)
MaxSeqLen == 2

\* The character '!'
ExclamationMark == 33

\* The quality characters '!', '#' and '&': qualities 0, 2 and 5
QualityChars == {33, 35, 38}

MinimumQualityScores == {0, 2, 3}

Bases == {"A", "C"}

VARIABLES
  mask_opts,  \* minimum_quality_score and paired_end_processing
  fragment,   \* the two mates as the reader delivered them
  seq1,       \* *seq1
  seq2,       \* *seq2
  mask_pc     \* "mask" before the guard, "classify" after it, or "errx"

mvars == <<mask_opts, fragment, seq1, seq2, mask_pc>>

Strings(alphabet) == UNION {[1..n -> alphabet] : n \in 0..MaxSeqLen}

\* struct Sequence: FASTA records have no qualities; the quality string
\* of a FASTQ record may be malformed, of another length than the sequence
SequenceRecords ==
  {[format |-> "FASTA", seq |-> s, quals |-> <<>>] : s \in Strings(Bases)}
    \cup {[format |-> "FASTQ", seq |-> s, quals |-> q] :
            s \in Strings(Bases), q \in Strings(QualityChars)}

NoSequence == [format |-> "FASTA", seq |-> <<>>, quals |-> <<>>]

\* A comparison that also masks a base whose quality equals the minimum
LowQualityInclusive(qual, minimum_quality_score) ==
  qual - ExclamationMark <= minimum_quality_score

\* (dna.quals[i] - '!') < minimum_quality_score
LowQuality(qual, minimum_quality_score) ==
  qual - ExclamationMark < minimum_quality_score

\* MaskLowQualityBases: the sequence it leaves behind, and whether it
\* called errx
MaskLowQualityBases(dna, minimum_quality_score) ==
  IF dna.format # "FASTQ" THEN [errx |-> FALSE, dna |-> dna]
  ELSE IF Len(dna.seq) # Len(dna.quals) THEN [errx |-> TRUE, dna |-> dna]
  ELSE [errx |-> FALSE,
        dna |-> [dna EXCEPT !.seq =
                   [i \in 1..Len(dna.seq) |->
                      IF LowQuality(dna.quals[i], minimum_quality_score)
                        THEN "x" ELSE dna.seq[i]]]]

MaskIdle ==
  /\ mask_opts = [minimum_quality_score |-> 0, paired_end_processing |-> FALSE]
  /\ fragment = <<NoSequence, NoSequence>>
  /\ seq1 = NoSequence
  /\ seq2 = NoSequence
  /\ mask_pc = "idle"

\* A fragment has been read: both mates of a file have the same format;
\* without paired mode there is no second mate
MaskInit ==
  /\ mask_opts \in [minimum_quality_score : MinimumQualityScores,
                     paired_end_processing : BOOLEAN]
  /\ fragment \in
       {f \in SequenceRecords \X SequenceRecords :
          /\ f[1].format = f[2].format
          /\ ~mask_opts.paired_end_processing => f[2] = [f[1] EXCEPT !.seq = <<>>, !.quals = <<>>]}
  /\ seq1 = fragment[1]
  /\ seq2 = fragment[2]
  /\ mask_pc = "mask"

\* if (opts.minimum_quality_score > 0) { MaskLowQualityBases(*seq1, ...);
\*   if (opts.paired_end_processing) MaskLowQualityBases(*seq2, ...); }
MaskFragment ==
  /\ mask_pc = "mask"
  /\ IF mask_opts.minimum_quality_score > 0
       THEN LET m1 == MaskLowQualityBases(seq1, mask_opts.minimum_quality_score)
                m2 == MaskLowQualityBases(seq2, mask_opts.minimum_quality_score)
            IN IF m1.errx
                 THEN mask_pc' = "errx" /\ UNCHANGED <<seq1, seq2>>
               ELSE IF mask_opts.paired_end_processing
                 THEN /\ seq1' = m1.dna
                      /\ seq2' = m2.dna
                      /\ mask_pc' = IF m2.errx THEN "errx" ELSE "classify"
               ELSE /\ seq1' = m1.dna
                    /\ mask_pc' = "classify"
                    /\ UNCHANGED seq2
       ELSE mask_pc' = "classify" /\ UNCHANGED <<seq1, seq2>>
  /\ UNCHANGED <<mask_opts, fragment>>

vars == <<dvars, rvars, cvars, hvars, mvars>>

DriverNext ==
  \E w \in Workers :
    \/ ReadBatch(w) /\ UNCHANGED <<rvars, cvars, hvars, mvars>>
    \/ ClassifyBatch(w) /\ UNCHANGED <<rvars, cvars, hvars, mvars>>
    \/ UpdateStats(w) /\ UNCHANGED <<rvars, cvars, hvars, mvars>>
    \/ InitializeOutputs(w) /\ UNCHANGED <<rvars, cvars, hvars, mvars>>
    \/ PushBlock(w) /\ UNCHANGED <<rvars, cvars, hvars, mvars>>
    \/ UpdateTaxonCounters(w) /\ UNCHANGED <<rvars, cvars, hvars, mvars>>
    \/ DrainEnter(w) /\ UNCHANGED <<rvars, cvars, hvars, mvars>>
    \/ SetLock(w) /\ UNCHANGED <<rvars, cvars, hvars, mvars>>
    \/ WriteBlock(w) /\ UNCHANGED <<rvars, cvars, hvars, mvars>>
    \/ UnsetLock(w) /\ UNCHANGED <<rvars, cvars, hvars, mvars>>

\* Some values for the options and the index while ClassifySequence is
\* not what is run
ClassifyUnused ==
  /\ c_opts = CHOOSE o \in ClassifyOptions : TRUE
  /\ idx = CHOOSE i \in Indexes : TRUE
  /\ c_taxonomy = CHOOSE p \in ClassifyTaxonomies : TRUE
  /\ ClassifyIdle

DriverUnused ==
  /\ opts = CHOOSE o \in DriverOptions : TRUE
  /\ input = <<>>
  /\ DriverIdle

Init == DriverInit /\ ResolveIdle /\ ClassifyUnused /\ HitlistIdle /\ MaskIdle

Next == DriverNext

Spec == Init /\ [][Next]_vars

ResolveNext == CallResolveTree /\ UNCHANGED <<dvars, cvars, hvars, mvars>>

\* ResolveTree on its own, on every input within the bounds
InitResolve == ResolveInit /\ DriverUnused /\ ClassifyUnused /\ HitlistIdle /\ MaskIdle

SpecResolve == InitResolve /\ [][ResolveNext]_vars

ClassifyNext ==
  \/ ScanAmbiguous /\ UNCHANGED <<dvars, rvars, hvars, mvars>>
  \/ (\E m \in Minimizers : ScanMinimizer(m)) /\ UNCHANGED <<dvars, rvars, hvars, mvars>>
  \/ EndOfFrame /\ UNCHANGED <<dvars, rvars, hvars, mvars>>
  \/ FinishClassify /\ UNCHANGED <<dvars, rvars, hvars, mvars>>

\* One call of ClassifySequence, on every input within the bounds
InitClassify == ClassifyInit /\ DriverUnused /\ ResolveIdle /\ HitlistIdle /\ MaskIdle

SpecClassify == InitClassify /\ [][ClassifyNext]_vars

HitlistNext == CallAddHitlistString /\ UNCHANGED <<dvars, rvars, cvars, mvars>>

InitHitlist == HitlistInit /\ DriverUnused /\ ResolveIdle /\ ClassifyUnused /\ MaskIdle

\* AddHitlistString on its own, on every trail within the bounds
SpecHitlist == InitHitlist /\ [][HitlistNext]_vars

MaskNext == MaskFragment /\ UNCHANGED <<dvars, rvars, cvars, hvars>>

InitMask ==
  MaskInit /\ DriverUnused /\ ResolveIdle /\ ClassifyUnused /\ HitlistIdle

\* The masking of one fragment, on every fragment within the bounds
SpecMask == InitMask /\ [][MaskNext]_vars

\* Threads that can run are eventually run
FairSpec == Init /\ [][Next]_vars /\ \A w \in Workers : WF_vars(WorkerStep(w) /\ UNCHANGED <<rvars, cvars, hvars, mvars>>)

AllExited == \A w \in Workers : pc[w] = "done"

(***************************************************************************)
(* Properties of ResolveTree.                                              *)
(***************************************************************************)

\* The parent chain of t: t, its parent, ... up to the root
RECURSIVE Chain(_, _)
Chain(parent, t) ==
  IF t = 0 THEN <<>>
  ELSE IF parent[t] = t THEN <<t>>
  ELSE <<t>> \o Chain(parent, parent[t])

ChainSet(parent, t) == {Chain(parent, t)[i] : i \in 1..Len(Chain(parent, t))}

\* Hits of hc at the taxa on the parent chain of t
PathHits(parent, hc, t) == SumCounts(hc, DOMAIN hc \cap ChainSet(parent, t))

\* Hits of hc at t and at the descendants of t
CladeSum(parent, hc, t) ==
  SumCounts(hc, {u \in DOMAIN hc : t \in ChainSet(parent, u)})

\* The deepest taxon that is on the parent chain of every taxon of S
DeepestCommonAncestor(parent, S) ==
  LET common == {c \in Taxa : \A t \in S : c \in ChainSet(parent, t)} IN
    IF S = {} \/ common = {} THEN 0
    ELSE CHOOSE c \in common : common \subseteq ChainSet(parent, c)

\* The least r with r >= threshold * total, threshold in quarters
CeilQuarters(threshold, total) ==
  CHOOSE r \in 0..total :
    /\ 4 * r >= threshold * total
    /\ \A q \in 0..total : 4 * q >= threshold * total => r <= q

\* The first taxon of a chain whose clade holds at least required hits
RECURSIVE FirstSupported(_, _, _, _)
FirstSupported(parent, hc, chain, required) ==
  IF chain = <<>> THEN 0
  ELSE IF CladeSum(parent, hc, Head(chain)) >= required THEN Head(chain)
  ELSE FirstSupported(parent, hc, Tail(chain), required)

ArgsTaxonomy == resolve_args.taxonomy
ArgsHits == resolve_args.hit_counts
ArgsRequired ==
  CeilQuarters(resolve_args.confidence_threshold, resolve_args.total_minimizers)

\* The candidates whose path score no other candidate exceeds
MaxPathTaxa ==
  {t \in DOMAIN ArgsHits :
     \A u \in DOMAIN ArgsHits :
       PathHits(ArgsTaxonomy, ArgsHits, u) <= PathHits(ArgsTaxonomy, ArgsHits, t)}

\* C6 as stated: the phase-1 score of candidate t is the sum of the hits
\* of all u in hit_counts with is_ancestor(t, u), that is, of the hits in
\* the clade of t.
C6_ScoreIsCladeSum ==
  resolve_ret.returned =>
    \A t \in DOMAIN ArgsHits :
      resolve_ret.scores[t] = CladeSum(ArgsTaxonomy, ArgsHits, t)

\* C6 amended: the phase-1 score of candidate t is the sum of the hits of
\* all u in hit_counts with is_ancestor(u, t) (u on the parent chain of t,
\* t included), and a candidate whose score is strictly greater than that
\* of every other candidate is the one kept.
C6_ScoreIsPathSum ==
  resolve_ret.returned =>
    /\ \A t \in DOMAIN ArgsHits :
         resolve_ret.scores[t] = PathHits(ArgsTaxonomy, ArgsHits, t)
    /\ \A t \in DOMAIN ArgsHits :
         (\A u \in DOMAIN ArgsHits \ {t} : resolve_ret.scores[u] < resolve_ret.scores[t])
           => resolve_ret.winner = t

\* a hit taxon below another hit taxon wins phase 1 with the hits of both
C6_Witness ==
  /\ resolve_ret.returned
  /\ \E t, u \in DOMAIN ArgsHits :
       /\ t # u
       /\ u \in ChainSet(ArgsTaxonomy, t)
       /\ resolve_ret.winner = t
       /\ resolve_ret.scores[t] = ArgsHits[t] + ArgsHits[u]
       /\ ArgsHits[u] > ArgsHits[t]

C8_TieGivesLCA ==
  resolve_ret.returned =>
    /\ resolve_ret.winner = DeepestCommonAncestor(ArgsTaxonomy, MaxPathTaxa)
    /\ resolve_args.confidence_threshold = 0 => resolve_ret.call = resolve_ret.winner
    /\ \A order \in Orders(DOMAIN ArgsHits) : \A n \in 1..Len(order) :
         PathHits(ArgsTaxonomy, ArgsHits, order[n])
             > Phase1(ArgsTaxonomy, ArgsHits, order, n - 1).max_score
           => Phase1(ArgsTaxonomy, ArgsHits, order, n).max_taxon = order[n]

\* {A:3, B:3} with LCA(A, B) = P and threshold 0 yields P
C8_Witness ==
  /\ resolve_ret.returned
  /\ ArgsHits = [t \in {2, 3} |-> 3]
  /\ ArgsTaxonomy[2] = 1 /\ ArgsTaxonomy[3] = 1
  /\ resolve_args.confidence_threshold = 0
  /\ resolve_ret.winner = 1
  /\ resolve_ret.call = 1

(***************************************************************************)
(* Properties of ClassifySequence.                                         *)
(***************************************************************************)

Returned == cpc = "returned"

LastScanned == scanned[Len(scanned)]

\* The scan was left by the quick-mode goto: the last thing the scanner
\* returned is a minimizer, not the end of a sequence
QuickExited ==
  /\ cpc \in {"finished_searching", "returned"}
  /\ scanned # <<>>
  /\ LastScanned \in Minimizers

\* C5: in quick mode, as soon as a minimizer yields a nonzero taxon t
\* while hit_groups >= minimum_hit_groups, the scan stops and t is the
\* call, without tree resolution: the fragment is reported C with the
\* external id of t and the hitlist <id>:Q, and t is returned.
C5_QuickModeReturnsHit ==
  (Returned /\ QuickExited) =>
    /\ call = Lookup(LastScanned)
    /\ koss[Len(koss)].status = "C"
    /\ koss[Len(koss)].ext_call = ExternalId(Lookup(LastScanned))
    /\ koss[Len(koss)].hitlist = <<Piece("Q", ExternalId(Lookup(LastScanned)), 0)>>

\* C9: ClassifySequence never returns a nonzero call when fewer than
\* minimum_hit_groups hit groups were seen, in quick mode or not: the
\* fragment is reported U, 0 is returned, the classified counter and the
\* per-taxon read counts are unchanged.
C9_TooFewHitGroupsUnclassified ==
  /\ minimizer_hit_groups < c_opts.minimum_hit_groups => call = 0
  /\ (Returned /\ minimizer_hit_groups < c_opts.minimum_hit_groups) =>
       /\ koss[Len(koss)].status = "U"
       /\ koss[Len(koss)].ext_call = 0
       /\ c_stats.total_classified = 0
       /\ \A t \in Taxa : curr_taxon_counts[t].reads = 0

\* threshold 0, minimum_hit_groups 2, one hit group seen: the call of
\* the tree resolver is voided
C9_Witness ==
  /\ Returned
  /\ ~c_opts.quick_mode
  /\ c_opts.report
  /\ c_opts.confidence_threshold = 0
  /\ c_opts.minimum_hit_groups = 2
  /\ minimizer_hit_groups = 1
  /\ \E t \in DOMAIN hit_counts : hit_counts[t] >= 1
  /\ call = 0
  /\ koss[Len(koss)].status = "U"

\* The event before position i of the scan that is not an ambiguous
\* minimizer, 0 if there is none; with across_frames, the ends of
\* sequences are passed over as well
PrecedingScanned(i, across_frames) ==
  LET before == {j \in 1..(i - 1) :
                   /\ scanned[j] # AmbiguousEvent
                   /\ across_frames => scanned[j] # EndOfSequence}
  IN  IF before = {} THEN 0
      ELSE scanned[CHOOSE j \in before : \A k \in before : k <= j]

\* The number of minimizers of the scan that hit the index and differ
\* from the minimizer scanned before them
HitGroupsOf(across_frames) ==
  Cardinality({i \in 1..Len(scanned) :
                 /\ scanned[i] \in Minimizers
                 /\ Lookup(scanned[i]) # 0
                 /\ PrecedingScanned(i, across_frames) # scanned[i]})

\* C10 as stated: last_minimizer and last_taxon are set once per call, so
\* hit_groups counts the hits whose minimizer differs from the minimizer
\* looked up before it anywhere in the fragment: a minimizer repeated
\* across a frame or mate boundary is no new hit group.
C10_HitGroupsAcrossFrames == minimizer_hit_groups = HitGroupsOf(TRUE)

\* C10 amended: last_minimizer and last_taxon are set anew at the start
\* of every frame of every mate, so hit_groups counts the hits whose
\* minimizer differs from the minimizer looked up before it in the same
\* frame: a minimizer repeated across a frame or mate boundary is looked
\* up again and is a new hit group when it hits.
C10_HitGroupsPerFrame == minimizer_hit_groups = HitGroupsOf(FALSE)

\* the same minimizer hits at the end of one frame and at the start of
\* the next and is counted twice
C10_Witness ==
  /\ minimizer_hit_groups = 2
  /\ \E i \in 1..Len(scanned) : \E j \in (i + 1)..Len(scanned) :
       /\ scanned[i] \in Minimizers
       /\ scanned[j] = scanned[i]
       /\ Lookup(scanned[i]) # 0
       /\ \A k \in (i + 1)..(j - 1) : scanned[k] = EndOfSequence
       /\ j > i + 1

(***************************************************************************)
(* Properties of the driver.                                               *)
(***************************************************************************)

\* What one worker reading and writing the batches one after another
\* writes to stream s: the text of batch 1, then of batch 2, ..., on the
\* sinks the options open.
RECURSIVE SequentialBatches(_, _)
SequentialBatches(s, n) ==
  IF n = 0 THEN <<>>
  ELSE SequentialBatches(s, n - 1)
         \o BatchText(BatchOf(input, n), opts.paired_end_processing)[s]

SequentialText(s) ==
  IF Len(input) = 0 \/ s \notin OpenedSinks(opts) THEN <<>>
  ELSE SequentialBatches(s, NumBatches(input))

\* C1: once all workers have exited, every output stream holds exactly the
\* text a single worker would have written: one line per fragment on the
\* normal-output stream, in input order, for any number of workers.
C1_OutputAsSequential ==
  AllExited =>
    /\ \A s \in Streams : sinks[s] = SequentialText(s)
    /\ "kraken" \in outputs.open =>
         /\ Len(sinks["kraken"]) = Len(input)
         /\ \A k \in 1..Len(input) : sinks["kraken"][k].id = k

C1_Witness ==
  /\ AllExited
  /\ opts.num_threads = 2
  /\ Len(written) = 3
  /\ Len(sinks["kraken"]) = 5
  /\ sinks["c1"] # <<>>
  /\ sinks["u1"] # <<>>

\* C2: the block ids written to the sinks are 0, 1, 2, ... in this order:
\* each written block has the id equal to the number of blocks written
\* before it.
C2_WrittenIdsInOrder == \A i \in 1..Len(written) : written[i] = i - 1

\* a block was written while a later block waits in the queue behind a
\* block that has not been pushed yet
C2_Witness ==
  /\ Len(written) >= 1
  /\ \E d \in output_queue : d.block_id > next_output_block_id

\* C3: every batch read is pushed and written exactly once: while a block
\* is queued some worker is still to drain it, and when all workers have
\* exited the queue is empty, next_output_block_id is the number of
\* batches read and each of their ids was written once.
C3_EveryBlockWritten ==
  /\ output_queue # {} => ~AllExited
  /\ AllExited =>
       /\ output_queue = {}
       /\ reader_pos = NumBatches(input)
       /\ next_output_block_id = reader_pos
       /\ Len(written) = reader_pos
       /\ \A b \in 0..(reader_pos - 1) : \E i \in 1..Len(written) : written[i] = b

\* a worker has exited while blocks it pushed behind a missing head are
\* still queued
C3_Witness ==
  /\ \E w \in Workers : w <= opts.num_threads /\ pc[w] = "done"
  /\ output_queue # {}
  /\ Top(output_queue).block_id # next_output_block_id

\* C4: the driver never deadlocks: while a worker has not exited some
\* worker can take a step, and under fair scheduling all workers
\* eventually exit, also when a worker waits for the output lock inside
\* the queue critical section.
C4_NoDeadlock ==
  /\ []((~AllExited /\ ProcessAlive) => ENABLED Next)
  /\ <>(AllExited \/ ~ProcessAlive)

\* a worker waits for the output lock inside critical(output_queue)
C4_Witness ==
  \E w \in Workers :
    /\ pc[w] = "setlock"
    /\ queue_owner = w
    /\ output_lock \notin {NoWorker, w}

(***************************************************************************)
(* Properties of the hitlist and of total_kmers.                           *)
(***************************************************************************)

\* The markers of the trail that stand for no minimizer
IsBorder(code) == code \in {MATE_PAIR_BORDER_TAXON, READING_FRAME_BORDER_TAXON}

\* The entries of the trail that are no border markers
NonBorderEntries(trail) ==
  Cardinality({i \in 1..Len(trail) : ~IsBorder(trail[i])})

\* The sum of the counts of the runs of a hitlist that are no border runs
RunCountSum(hitlist) ==
  SumSeq([i \in 1..Len(hitlist) |->
            IF hitlist[i].t \in {"taxon", "A"} THEN hitlist[i].n ELSE 0])

\* C11: for every fragment classified in non-quick mode, the run counts of
\* the hitlist that belong to no border marker add up to the number of
\* entries of the trail that are no border markers, and that number is the
\* total_minimizers value passed to the tree resolver.
C11_HitlistCountsTotalMinimizers ==
  (Returned /\ ~c_opts.quick_mode) =>
    /\ RunCountSum(koss[Len(koss)].hitlist) = NonBorderEntries(taxa)
    /\ NonBorderEntries(taxa) = TotalKmers(Len(taxa), c_opts)

\* C11, the part that holds without translated search
C11_UntranslatedCounts ==
  (Returned /\ ~c_opts.quick_mode) =>
    /\ RunCountSum(koss[Len(koss)].hitlist) = NonBorderEntries(taxa)
    /\ ~c_opts.use_translated_search =>
         NonBorderEntries(taxa) = TotalKmers(Len(taxa), c_opts)
    /\ (c_opts.use_translated_search /\ ~c_opts.paired_end_processing) =>
         TotalKmers(Len(taxa), c_opts) = NonBorderEntries(taxa) + 3
    /\ (c_opts.use_translated_search /\ c_opts.paired_end_processing) =>
         TotalKmers(Len(taxa), c_opts) = NonBorderEntries(taxa) + 6

\* The runs of a trail from index i on: a code and the number of times it
\* is repeated
RECURSIVE RunsFrom(_, _, _, _)
RunsFrom(trail, i, code, count) ==
  IF i > Len(trail) THEN <<[code |-> code, count |-> count]>>
  ELSE IF trail[i] = code THEN RunsFrom(trail, i + 1, code, count + 1)
  ELSE <<[code |-> code, count |-> count]>> \o RunsFrom(trail, i + 1, trail[i], 1)

RunsOf(trail) == RunsFrom(trail, 2, trail[1], 1)

\* The token of one run: <external id>:<count>, A:<count>, |:| or -:-
RunToken(run) ==
  CASE run.code = MATE_PAIR_BORDER_TAXON -> Piece("|:|", 0, 0)
    [] run.code = READING_FRAME_BORDER_TAXON -> Piece("-:-", 0, 0)
    [] run.code = AMBIGUOUS_SPAN_TAXON -> Piece("A", 0, run.count)
    [] OTHER -> Piece("taxon", ExternalId(run.code), run.count)

\* The tokens of the runs with one space between consecutive tokens and
\* none after the last
RECURSIVE SpaceSeparated(_)
SpaceSeparated(runs) ==
  IF Len(runs) = 1 THEN <<RunToken(runs[1])>>
  ELSE <<RunToken(runs[1]), Space>> \o SpaceSeparated(Tail(runs))

HitlistWritten == hitlist_oss # NotWritten

\* C12: for every non-empty trail the hitlist is the tokens of its runs
\* with exactly one space between consecutive runs, and it does not end
\* with a space whatever the kind of the final run.
C12_NoTrailingSpace ==
  HitlistWritten =>
    /\ hitlist_oss = SpaceSeparated(RunsOf(hitlist_taxa))
    /\ hitlist_oss[Len(hitlist_oss)] # Space

\* C12 for the trails whose final run is no ambiguous span; after a final
\* ambiguous span one space follows
C12_SpaceOnlyAfterFinalAmbiguous ==
  HitlistWritten =>
    IF hitlist_taxa[Len(hitlist_taxa)] = AMBIGUOUS_SPAN_TAXON
      THEN hitlist_oss = SpaceSeparated(RunsOf(hitlist_taxa)) \o <<Space>>
      ELSE hitlist_oss = SpaceSeparated(RunsOf(hitlist_taxa))

\* [10, 10, AMBIGUOUS_SPAN, MATE_PAIR_BORDER, 20] gives 10:2 A:1 |:| 20:1
C12_Example ==
  (HitlistWritten
     /\ hitlist_taxa = <<1, 1, AMBIGUOUS_SPAN_TAXON, MATE_PAIR_BORDER_TAXON, 2>>)
    => hitlist_oss = <<Piece("taxon", 10, 2), Space, Piece("A", 0, 1), Space,
                        Piece("|:|", 0, 0), Space, Piece("taxon", 20, 1)>>

(***************************************************************************)
(* Properties of the aggregate statistics.                                 *)
(***************************************************************************)

\* C13: after all workers have exited, stats.total_sequences is the
\* number of fragments of the input, stats.total_classified the number of
\* fragments with a nonzero call and stats.total_bases the sum of the
\* lengths of their sequences: no thread-local contribution is lost or
\* added twice.
C13_StatsExactAfterJoin ==
  AllExited =>
    /\ stats.total_sequences = Len(input)
    /\ stats.total_classified = Cardinality({k \in 1..Len(input) : input[k] # 0})
    /\ stats.total_bases = BatchBases(AllFragments(input), opts.paired_end_processing)

\* two workers, three batches, classified and unclassified fragments
C13_Witness ==
  /\ AllExited
  /\ opts.num_threads = 2
  /\ reader_pos = 3
  /\ stats.total_sequences = 5
  /\ stats.total_classified \in 1..4
  /\ stats.total_bases > 0

\* C17: in every reachable state of the shared statistics, between any
\* two critical sections of any workers, stats.total_classified is at most
\* stats.total_sequences.
C17_ClassifiedAtMostSequences ==
  /\ stats.total_classified <= stats.total_sequences
  /\ \A w \in Workers : thread_stats[w].total_classified <= thread_stats[w].total_sequences

\* before the join: one worker has added a batch whose fragments are all
\* classified while another is still classifying
C17_Witness ==
  /\ ~AllExited
  /\ stats.total_sequences > 0
  /\ stats.total_classified = stats.total_sequences
  /\ \E w \in Workers : pc[w] = "classify" /\ thread_stats[w] = ZeroStats

(***************************************************************************)
(* Properties of the routing of the sequence records.                      *)
(***************************************************************************)

\* The records of fragment id on stream s of the thread-local text txt
RecordsOf(txt, s, id) == SelectSeq(txt[s], LAMBDA r : r.id = id)

\* C14: the record of a fragment is on the classified stream, with the
\* suffix " kraken:taxid|<external id>", if and only if its output line
\* starts with C; otherwise it is on the unclassified stream with no
\* suffix and the line shows external id 0; with paired input both mates
\* are in the same class.
C14_RoutedByCall ==
  \A w \in Workers : \A i \in 1..Len(oss[w]["kraken"]) :
    pc[w] \notin {"classify", "done"} =>
    LET line == oss[w]["kraken"][i]
        f == batch[w][i]
        paired == opts.paired_end_processing
        c1 == RecordsOf(oss[w], "c1", line.id)
        c2 == RecordsOf(oss[w], "c2", line.id)
        u1 == RecordsOf(oss[w], "u1", line.id)
        u2 == RecordsOf(oss[w], "u2", line.id)
    IN
      /\ line.id = f.id
      /\ line.status = "C" <=> f.call # 0
      /\ line.status = "C" =>
           /\ line.ext_call = ExternalId(f.call)
           /\ c1 = <<SequenceRecord(f, 1, line.ext_call)>>
           /\ c2 = IF paired THEN <<SequenceRecord(f, 2, line.ext_call)>> ELSE <<>>
           /\ u1 = <<>> /\ u2 = <<>>
      /\ line.status = "U" =>
           /\ line.ext_call = 0
           /\ u1 = <<SequenceRecord(f, 1, NoSuffix)>>
           /\ u2 = IF paired THEN <<SequenceRecord(f, 2, NoSuffix)>> ELSE <<>>
           /\ c1 = <<>> /\ c2 = <<>>

\* a paired batch with a classified and an unclassified fragment
C14_Witness ==
  \E w \in Workers :
    /\ pc[w] = "stats"
    /\ opts.paired_end_processing
    /\ oss[w]["c1"] # <<>> /\ oss[w]["c2"] # <<>>
    /\ oss[w]["u1"] # <<>> /\ oss[w]["u2"] # <<>>

(***************************************************************************)
(* Properties of the output lock.                                          *)
(***************************************************************************)

\* The workers between omp_set_lock and omp_unset_lock
BetweenLockAndUnlock == {w \in Workers : pc[w] \in {"write", "unlock"}}

\* C15: at most one worker at a time is between acquiring and releasing
\* the output lock, and a write to an output sink is made only by the
\* worker that holds it.
C15_OneWriterUnderLock ==
  /\ [](/\ Cardinality(BetweenLockAndUnlock) <= 1
        /\ \A w \in BetweenLockAndUnlock : output_lock = w)
  /\ [][(sinks' # sinks \/ written' # written) =>
          \E w \in Workers : output_lock = w /\ pc[w] = "write" /\ pc'[w] = "unlock"]_vars

\* one worker writes under the lock while another has popped the next
\* block and waits for the lock
C15_Witness ==
  \E w, v \in Workers :
    /\ w # v
    /\ pc[w] = "write" /\ output_lock = w
    /\ out_data[w].str["kraken"] # <<>>
    /\ pc[v] = "setlock"

(***************************************************************************)
(* Properties of fragments without hits.                                   *)
(***************************************************************************)

\* No minimizer the scanner returned is in the index with a nonzero taxon
NoHit ==
  \A i \in 1..Len(scanned) : scanned[i] \in Minimizers => Lookup(scanned[i]) = 0

\* C16: a fragment for which no lookup returned a nonzero taxon is never
\* classified, in quick mode or not, for every threshold and every
\* minimum_hit_groups: there are no hit groups and no hits, and
\* ClassifySequence returns 0 and reports U.
C16_NoHitNoCall ==
  NoHit =>
    /\ minimizer_hit_groups = 0
    /\ \A t \in DOMAIN hit_counts : hit_counts[t] = 0
    /\ call = 0
    /\ Returned =>
         /\ koss[Len(koss)].status = "U"
         /\ c_stats.total_classified = 0

\* quick mode, threshold 0, minimum_hit_groups 0, minimizers that all
\* miss the index
C16_Witness ==
  /\ Returned
  /\ NoHit
  /\ c_opts.quick_mode
  /\ c_opts.confidence_threshold = 0
  /\ c_opts.minimum_hit_groups = 0
  /\ Len(SelectSeq(scanned, LAMBDA e : e \in Minimizers)) = MaxMinimizers
  /\ call = 0

(***************************************************************************)
(* Properties of the error exit of InitializeOutputs.                      *)
(***************************************************************************)

\* C18: a paired run whose classified or unclassified output filename
\* does not contain exactly one # never ends normally, and no block is
\* written to a sink, for every input, the input without fragments
\* included.
C18_BadFilenameNeverEndsNormally ==
  BadPairedFilename(opts) => (~AllExited /\ written = <<>>)

\* C18 for the inputs with at least one fragment; without fragments the
\* run ends normally and nothing is written
C18_ErrorOnFirstBlock ==
  BadPairedFilename(opts) =>
    /\ written = <<>> /\ sinks = EmptyStrings /\ output_queue = {}
    /\ ~outputs.initialized
    /\ AllExited => Len(input) = 0
    /\ ~ProcessAlive => Len(input) > 0

\* A worker waits for the output lock
WaitsForLock(w) == pc[w] = "setlock" /\ output_lock # NoWorker

\* C19 as stated: the output lock is taken only after the queue critical
\* section was left: no worker waits for the output lock while it is
\* inside critical(output_queue).
C19_LockTakenOutsideCritical ==
  \A w \in Workers : WaitsForLock(w) => queue_owner # w

\* C19 amended: the output lock is taken inside critical(output_queue): a
\* worker that waits for it is inside the critical section and keeps all
\* other workers out of it, and the holder it waits for is writing or
\* about to unlock, which needs no critical section.
C19_LockTakenInsideCritical ==
  /\ [](\A w \in Workers :
          /\ pc[w] = "setlock" => queue_owner = w
          /\ WaitsForLock(w) =>
               /\ pc[output_lock] \in {"write", "unlock"}
               /\ ENABLED (WriteBlock(output_lock) \/ UnsetLock(output_lock))
               /\ \A v \in Workers \ {w} : ~ENABLED (PushBlock(v) \/ DrainEnter(v)))
  /\ [][\A w \in Workers :
          (output_lock' = w /\ output_lock # w) => queue_owner = w]_vars

\* a worker waits for the lock inside the critical section while the
\* holder writes and a further block is queued
C19_Witness ==
  \E w \in Workers :
    /\ WaitsForLock(w)
    /\ queue_owner = w
    /\ pc[output_lock] = "write"
    /\ output_queue # {}

(***************************************************************************)
(* Properties of the pool of spare buffers.                                *)
(***************************************************************************)

\* Worker w is about to execute the unguarded buffers.pop_back(): it is at
\* the head of its drain loop, has written nothing in this drain, and the
\* queue is empty
AtUnguardedPop(w) ==
  pc[w] = "drain" /\ ~borrowed_buffer[w] /\ output_queue = {}

\* C20: with the pool of 2 * T spare buffers the unguarded pop is never
\* executed on an empty pool: whenever a worker is about to execute it the
\* pool holds more than its 2 * T initial buffers, the worker that emptied
\* the queue having given back one more than the workers without a block
\* to write have taken.
C20_UnguardedPopNeverOnEmptyPool ==
  /\ ~pool_underflow
  /\ \A w \in Workers : AtUnguardedPop(w) => buffers > 2 * opts.num_threads

\* a worker whose block was written by another worker takes a buffer
\* from the pool with the unguarded pop
C20_Witness ==
  \E w \in Workers :
    /\ pc[w] = "read"
    /\ ~borrowed_buffer[w]
    /\ block_id[w] < next_output_block_id
    /\ \E i \in 1..Len(written) : written[i] = block_id[w]
    /\ buffers = 2 * opts.num_threads
    /\ output_queue = {}

(***************************************************************************)
(* Iteration order of hit_counts.                                          *)
(***************************************************************************)

\* What ResolveTree returns for the arguments of the call when hit_counts
\* is iterated in the given order
ResolvedIn(order, overflow_value) ==
  ResolveTree(ArgsTaxonomy, ArgsHits, order, resolve_args.total_minimizers,
              resolve_args.confidence_threshold, overflow_value)

\* C21: the result of ResolveTree does not depend on the iteration order of
\* hit_counts: every permutation of the candidates yields the same phase-1
\* winner, the lowest common ancestor of all taxa with the maximum score,
\* and the same returned taxon.
C21_OrderIndependent ==
  resolve_ret.returned =>
    \A order \in Orders(DOMAIN ArgsHits) : \A ov \in OverflowValues :
      LET r == ResolvedIn(order, ov) IN
        r.required_score = resolve_ret.required_score =>
          /\ r.winner = resolve_ret.winner
          /\ r.winner = DeepestCommonAncestor(ArgsTaxonomy, MaxPathTaxa)
          /\ r.call = resolve_ret.call

\* three candidates, two of them tied at the maximum below different
\* parents, a nonzero result
C21_Witness ==
  /\ resolve_ret.returned
  /\ Cardinality(DOMAIN ArgsHits) = 3
  /\ Cardinality(MaxPathTaxa) = 2
  /\ resolve_ret.winner \notin MaxPathTaxa
  /\ resolve_ret.call # 0
  /\ resolve_args.confidence_threshold # 0

(***************************************************************************)
(* The trail length passed to ResolveTree.                                 *)
(***************************************************************************)

\* The markers ClassifySequence subtracts from taxa.size()
MarkersSubtracted(o) ==
  (IF o.paired_end_processing THEN 1 ELSE 0)
    + (IF o.use_translated_search
         THEN (IF o.paired_end_processing THEN 4 ELSE 2) ELSE 0)

\* C22: the total_minimizers passed to ResolveTree never wraps below zero:
\* at finished_searching the trail holds at least as many entries as
\* ClassifySequence subtracts for the mate-pair and reading-frame markers,
\* also when quick mode left the scan before any marker was pushed.
C22_TotalNeverWraps ==
  cpc \in {"finished_searching", "returned"} =>
    /\ Len(taxa) >= MarkersSubtracted(c_opts)
    /\ TotalKmers(Len(taxa), c_opts) = Len(taxa) - MarkersSubtracted(c_opts)

(***************************************************************************)
(* Termination of ResolveTree: the while loop of phase 2, one action per   *)
(* iteration, on the taxonomies whose root has parent 0 or is its own      *)
(* parent.                                                                 *)
(***************************************************************************)

\* The parent_id arrays of the data model: the parent of the root is 0 or
\* the root itself
RootedTaxonomies ==
  {p \in [Taxa -> 0..NumTaxa] :
     /\ p[1] \in {0, 1}
     /\ \A t \in Taxa \ {1} : 1 <= p[t] /\ p[t] < t}

\* The calls of ResolveTree that are run
ClimbArgs ==
  {[taxonomy |-> p, hit_counts |-> hc, confidence_threshold |-> th,
    total_minimizers |-> SumCounts(hc, DOMAIN hc) + m] :
   p \in RootedTaxonomies, hc \in HitCountMaps, th \in Thresholds,
   m \in 0..MaxMisses}

\* ResolveTree has not been called yet
ClimbInit ==
  /\ resolve_args = NoArgs
  /\ resolve_ret = NotReturned

\* ResolveTree is called and runs up to the first test of the while loop:
\* required_score, phase 1 and max_score = hit_counts[max_taxon].
\* odd_iterations tells whether the loop body has run an odd number of
\* times, so that an iteration that changes no variable of the code is
\* still a step.
EnterResolveTree ==
  /\ resolve_ret = NotReturned
  /\ resolve_args = NoArgs
  /\ \E args \in ClimbArgs :
       /\ resolve_args' = args
       /\ \E order \in Orders(DOMAIN args.hit_counts), ov \in OverflowValues :
            LET p1 == Phase1(args.taxonomy, args.hit_counts, order, Len(order))
                hc2 == WithKey(args.hit_counts, p1.max_taxon)
            IN resolve_ret' =
                 [returned |-> FALSE, call |-> 0, winner |-> p1.max_taxon,
                  max_taxon |-> p1.max_taxon, max_score |-> hc2[p1.max_taxon],
                  odd_iterations |-> FALSE,
                  required_score |-> RequiredScore(args.confidence_threshold,
                                                   args.total_minimizers, ov),
                  hit_counts |-> hc2]

\* ResolveTree is inside its while loop, at the test
InClimb == resolve_ret # NotReturned /\ ~resolve_ret.returned

\* while (max_taxon && max_score < required_score)
ClimbCondition ==
  /\ resolve_ret.max_taxon # 0
  /\ ~EnoughSupport(resolve_ret.max_score, resolve_ret.required_score)

\* One iteration of the while loop: the clade score of max_taxon; return
\* max_taxon if it is enough, else go on with the parent
ClimbIteration ==
  /\ InClimb
  /\ ClimbCondition
  /\ LET clade == CladeHits(resolve_args.taxonomy, resolve_ret.hit_counts,
                            resolve_ret.max_taxon)
     IN IF EnoughSupport(clade, resolve_ret.required_score)
          THEN resolve_ret' = [resolve_ret EXCEPT !.max_score = clade,
                                                  !.odd_iterations = ~@,
                                                  !.returned = TRUE,
                                                  !.call = resolve_ret.max_taxon]
          ELSE resolve_ret' =
                 [resolve_ret EXCEPT !.max_score = clade,
                                     !.odd_iterations = ~@,
                                     !.max_taxon = ParentOf(resolve_args.taxonomy,
                                                            resolve_ret.max_taxon)]
  /\ UNCHANGED resolve_args

\* The loop condition is false: return max_taxon
ClimbReturn ==
  /\ InClimb
  /\ ~ClimbCondition
  /\ resolve_ret' = [resolve_ret EXCEPT !.returned = TRUE,
                                        !.call = resolve_ret.max_taxon]
  /\ UNCHANGED resolve_args

ClimbNext ==
  \/ EnterResolveTree /\ UNCHANGED <<dvars, cvars, hvars, mvars>>
  \/ ClimbIteration /\ UNCHANGED <<dvars, cvars, hvars, mvars>>
  \/ ClimbReturn /\ UNCHANGED <<dvars, cvars, hvars, mvars>>

InitClimb == ClimbInit /\ DriverUnused /\ ClassifyUnused /\ HitlistIdle /\ MaskIdle

\* The thread that called ResolveTree keeps running
FairSpecClimb == InitClimb /\ [][ClimbNext]_vars /\ WF_vars(ClimbNext)

\* No taxon on the parent chain of the phase-1 winner has a clade score of
\* at least the required score
NoSupportOnChain ==
  \A t \in ChainSet(ArgsTaxonomy, resolve_ret.winner) :
    CladeSum(ArgsTaxonomy, ArgsHits, t) < resolve_ret.required_score

\* C23: ResolveTree terminates for every taxonomy whose root has parent 0
\* or is its own parent, every hit_counts and every threshold in [0,1];
\* when no taxon on the chain of the winner reaches the required score the
\* climb runs off the root and the result is 0.
C23_ResolveTreeTerminates ==
  /\ <>(resolve_ret.returned)
  /\ [](resolve_ret.returned /\ NoSupportOnChain => resolve_ret.call = 0)

\* C23 on the taxonomies whose root has parent 0: the loop ends, with 0
\* when no taxon on the chain of the winner is supported
C23_TerminatesWithRootParentZero ==
  /\ [](InClimb /\ resolve_args.taxonomy[1] = 0 => <>(resolve_ret.returned))
  /\ [](resolve_ret.returned /\ NoSupportOnChain => resolve_ret.call = 0)

\* The loop is at a root that is its own parent, without enough support
C23_StuckAtRoot ==
  /\ InClimb
  /\ ClimbCondition
  /\ resolve_ret.max_taxon = 1
  /\ resolve_args.taxonomy[1] = 1
  /\ ~EnoughSupport(CladeHits(resolve_args.taxonomy, resolve_ret.hit_counts, 1),
                    resolve_ret.required_score)

(***************************************************************************)
(* Block ids.                                                              *)
(***************************************************************************)

\* The workers that hold a batch they read and have not pushed yet
HoldsBatch(w) == pc[w] \in {"classify", "stats", "init", "push", "errx"}

\* The workers that hold a block they popped and have not written yet
HoldsBlock(w) == pc[w] \in {"setlock", "write"}

\* The block ids given to batches that were read, wherever the block is
IdsOfReadBatches ==
  {block_id[w] : w \in {v \in Workers : HoldsBatch(v)}}
    \cup {d.block_id : d \in output_queue}
    \cup {out_data[w].block_id : w \in {v \in Workers : HoldsBlock(v)}}
    \cup {written[i] : i \in 1..Len(written)}

\* C24: the k-th successful batch read (k = 0, 1, ...) gets block_id k.
\* The ids of the blocks that were read are distinct and are exactly
\* 0 .. (number of successful reads) - 1, and the block with id k carries
\* the k-th batch of the reader, although a read that returns nothing
\* consumes an id as well.
C24_BlockIdsFollowReader ==
  /\ IdsOfReadBatches = 0..(reader_pos - 1)
  /\ Cardinality({w \in Workers : HoldsBatch(w)}) + Cardinality(output_queue)
       + Cardinality({w \in Workers : HoldsBlock(w)}) + Len(written) = reader_pos
  /\ \A w \in Workers :
       HoldsBatch(w) /\ pc[w] # "errx" => batch[w] = BatchOf(input, block_id[w] + 1)
  /\ \A d \in output_queue :
       d.str = BatchText(BatchOf(input, d.block_id + 1), opts.paired_end_processing)
  /\ \A w \in Workers :
       HoldsBlock(w) =>
         out_data[w].str = BatchText(BatchOf(input, out_data[w].block_id + 1),
                                     opts.paired_end_processing)

\* three batches read by two workers and written, and a read that returned
\* nothing has taken an id
C24_Witness ==
  /\ opts.num_threads = 2
  /\ reader_pos = 3
  /\ written = <<0, 1, 2>>
  /\ next_input_block_id > reader_pos
  /\ \E w \in Workers : pc[w] = "done" /\ block_id[w] = 3

(***************************************************************************)
(* Lazy initialisation of the output streams.  The test of                 *)
(* outputs.initialized before the call of InitializeOutputs is outside     *)
(* every critical section, while the flag and the stream pointers are      *)
(* written inside critical(output_init): a read that is concurrent with    *)
(* the initialisation is a data race and may yield either value.           *)
(***************************************************************************)

\* A thread is inside critical(output_init), opening the streams
Initialising == \E v \in Workers : pc[v] = "opening"

\* What if (!outputs.initialized) may read
InitializedOutcomes ==
  IF Initialising THEN BOOLEAN ELSE {outputs.initialized}

\* critical(output_stats), then the unsynchronised test of outputs.initialized
UpdateStatsRacy(w) ==
  /\ pc[w] = "stats"
  /\ ProcessAlive
  /\ stats' =
       [total_sequences |-> stats.total_sequences + thread_stats[w].total_sequences,
        total_bases |-> stats.total_bases + thread_stats[w].total_bases,
        total_classified |-> stats.total_classified + thread_stats[w].total_classified]
  /\ \E seen \in InitializedOutcomes :
       pc' = [pc EXCEPT ![w] = IF seen THEN "push" ELSE "init"]
  /\ UNCHANGED <<opts, input, reader_pos, next_input_block_id,
                 next_output_block_id, output_queue, queue_owner, output_lock,
                 buffers, pool_underflow, outputs, sinks, written,
                 total_taxon_counters, block_id, batch, oss, thread_stats,
                 thread_taxon_counters, out_data, borrowed_buffer>>

\* InitializeOutputs: enter critical(output_init) and test the flag again;
\* errx on a bad filename of a paired run
InitializeOutputsBegin(w) ==
  /\ pc[w] = "init"
  /\ ProcessAlive
  /\ ~Initialising
  /\ pc' = [pc EXCEPT ![w] =
              IF outputs.initialized THEN "push"
              ELSE IF BadPairedFilename(opts) THEN "errx" ELSE "opening"]
  /\ UNCHANGED <<opts, input, reader_pos, next_input_block_id,
                 next_output_block_id, output_queue, queue_owner, output_lock,
                 buffers, pool_underflow, outputs, sinks, written, stats,
                 total_taxon_counters, block_id, batch, oss, thread_stats,
                 thread_taxon_counters, out_data, borrowed_buffer>>

\* InitializeOutputs: the streams are open, initialized = true, leave the
\* critical section
InitializeOutputsEnd(w) ==
  /\ pc[w] = "opening"
  /\ ProcessAlive
  /\ outputs' = [initialized |-> TRUE, open |-> OpenedSinks(opts)]
  /\ pc' = [pc EXCEPT ![w] = "push"]
  /\ UNCHANGED <<opts, input, reader_pos, next_input_block_id,
                 next_output_block_id, output_queue, queue_owner, output_lock,
                 buffers, pool_underflow, sinks, written, stats,
                 total_taxon_counters, block_id, batch, oss, thread_stats,
                 thread_taxon_counters, out_data, borrowed_buffer>>

RacyNext ==
  \E w \in Workers :
    \/ ReadBatch(w) /\ UNCHANGED <<rvars, cvars, hvars, mvars>>
    \/ ClassifyBatch(w) /\ UNCHANGED <<rvars, cvars, hvars, mvars>>
    \/ UpdateStatsRacy(w) /\ UNCHANGED <<rvars, cvars, hvars, mvars>>
    \/ InitializeOutputsBegin(w) /\ UNCHANGED <<rvars, cvars, hvars, mvars>>
    \/ InitializeOutputsEnd(w) /\ UNCHANGED <<rvars, cvars, hvars, mvars>>
    \/ PushBlock(w) /\ UNCHANGED <<rvars, cvars, hvars, mvars>>
    \/ UpdateTaxonCounters(w) /\ UNCHANGED <<rvars, cvars, hvars, mvars>>
    \/ DrainEnter(w) /\ UNCHANGED <<rvars, cvars, hvars, mvars>>
    \/ SetLock(w) /\ UNCHANGED <<rvars, cvars, hvars, mvars>>
    \/ WriteBlock(w) /\ UNCHANGED <<rvars, cvars, hvars, mvars>>
    \/ UnsetLock(w) /\ UNCHANGED <<rvars, cvars, hvars, mvars>>

InitRacy == DriverInit /\ ResolveIdle /\ ClassifyUnused /\ HitlistIdle /\ MaskIdle

SpecRacy == InitRacy /\ [][RacyNext]_vars

\* C25, first part: the output streams are initialised at most once: one
\* thread at a time opens them, and once initialized is set, outputs never
\* changes again.
C25_InitialisedAtMostOnce ==
  /\ [](Cardinality({w \in Workers : pc[w] = "opening"}) <= 1)
  /\ [](Initialising => ~outputs.initialized)
  /\ [][outputs.initialized => outputs' = outputs]_vars

C25_WrittenWhileInitialising ==
  /\ Initialising
  /\ ~outputs.initialized
  /\ written # <<>>

(***************************************************************************)
(* Per-taxon read counts of the report.                                    *)
(***************************************************************************)

\* The workers whose block is read but not yet folded into the aggregate
\* per-taxon counters
NotYetFolded(w) == pc[w] \in {"classify", "stats", "init", "push", "counters", "errx"}

\* The fragments of the batches that were read and folded
FoldedFragments ==
  {k \in 1..Len(input) :
     \E b \in 1..reader_pos :
       /\ k \in (Offset(b) + 1)..(Offset(b) + Len(BatchOf(input, b)))
       /\ \A w \in Workers : NotYetFolded(w) => block_id[w] # b - 1}

\* C26: with a report requested, the aggregate read count of every taxon
\* t is at every moment the number of fragments called t in the blocks
\* that went through critical(update_taxon_counters), each block counted
\* once, and after all workers have exited it is the number of fragments
\* of the input whose call was t.
C26_ReadCountsExact ==
  opts.report =>
    /\ \A t \in Calls \ {0} :
         total_taxon_counters[t] =
           Cardinality({k \in FoldedFragments : input[k] = t})
    /\ AllExited =>
         \A t \in Calls \ {0} :
           total_taxon_counters[t] =
             Cardinality({k \in 1..Len(input) : input[k] = t})

\* two workers have exited, three blocks were written, four fragments
\* were called taxon 1 and one was not called
C26_Witness ==
  /\ opts.report
  /\ opts.num_threads = 2
  /\ AllExited
  /\ Len(written) = 3
  /\ Cardinality({k \in 1..Len(input) : input[k] = 1}) = 4
  /\ total_taxon_counters[1] = 4
  /\ \A w \in Workers : block_id[w] >= 3

(***************************************************************************)
(* The mate-pair border of the trail.                                      *)
(***************************************************************************)

\* The positions of the trail that hold MATE_PAIR_BORDER_TAXON
MateBorders == {i \in 1..Len(taxa) : taxa[i] = MATE_PAIR_BORDER_TAXON}

\* The ends of sequences among what the scanner returned
EndsScanned == {i \in 1..Len(scanned) : scanned[i] = EndOfSequence}

\* What the scanner returned for the frames of the first mate, without
\* the ends of the sequences; defined once the first mate is over
FirstMateScanned ==
  LET last_end == CHOOSE i \in EndsScanned :
                    Cardinality({j \in EndsScanned : j <= i}) = frame_ct
  IN  {j \in 1..last_end : scanned[j] # EndOfSequence}

\* The trail has one mate-pair border, right after the entries and the
\* frame borders of the first mate
OneBorderAfterFirstMate ==
  /\ Cardinality(MateBorders) = 1
  /\ Cardinality(EndsScanned) >= frame_ct
  /\ MateBorders = {Cardinality(FirstMateScanned) + (frame_ct - 1) + 1}

\* The quick-mode goto was taken while the first mate was scanned
QuickExitedInFirstMate == QuickExited /\ mate_num = 0

\* C27 as stated: in paired mode the trail of every fragment contains
\* exactly one MATE_PAIR_BORDER entry, pushed after the frames of the
\* first mate, even when one mate yields no minimizers.
C27_ExactlyOneMateBorder ==
  (cpc \in {"finished_searching", "returned"} /\ c_opts.paired_end_processing)
    => OneBorderAfterFirstMate

\* C27 amended: in paired mode the trail of a fragment whose scan was not
\* left by the quick-mode exit during the first mate contains exactly one
\* MATE_PAIR_BORDER entry, pushed after the frames of the first mate, even
\* when one mate yields no minimizers; when quick mode leaves the scan
\* during the first mate the trail contains none; without paired mode the
\* trail never contains one.
C27_OneMateBorderUnlessQuickExit ==
  /\ (cpc \in {"finished_searching", "returned"} /\ c_opts.paired_end_processing)
       => IF QuickExitedInFirstMate THEN MateBorders = {}
          ELSE OneBorderAfterFirstMate
  /\ ~c_opts.paired_end_processing => MateBorders = {}

\* a paired fragment whose first mate yields no minimizer and whose second
\* mate yields two: the trail is the border and the two entries
C27_Witness ==
  /\ Returned
  /\ c_opts.paired_end_processing
  /\ ~c_opts.use_translated_search
  /\ Len(scanned) = 4
  /\ scanned[1] = EndOfSequence
  /\ scanned[4] = EndOfSequence
  /\ Len(taxa) = 3
  /\ taxa[1] = MATE_PAIR_BORDER_TAXON

(***************************************************************************)
(* Ambiguous minimizers.                                                   *)
(***************************************************************************)

\* C28: when the scanner reports the current minimizer as ambiguous,
\* ClassifySequence looks nothing up and leaves hit_counts, the hit
\* groups, last_minimizer, last_taxon, the call and the per-taxon counters
\* as they were; its only effect is to append AMBIGUOUS_SPAN_TAXON to the
\* trail.
C28_AmbiguousOnlyExtendsTrail ==
  [][scanned' = Append(scanned, AmbiguousEvent) =>
       /\ taxa' = Append(taxa, AMBIGUOUS_SPAN_TAXON)
       /\ UNCHANGED <<hit_counts, minimizer_hit_groups, last_minimizer,
                      last_taxon, call, curr_taxon_counts, koss, c_stats,
                      mate_num, frame_idx, cpc>>]_vars

\* an ambiguous minimizer right after a hit: the hit is still the last
\* minimizer looked up
C28_Witness ==
  /\ scanned = <<1, AmbiguousEvent>>
  /\ taxa = <<2, AMBIGUOUS_SPAN_TAXON>>
  /\ last_minimizer = 1
  /\ last_taxon = 2
  /\ minimizer_hit_groups = 1
  /\ hit_counts = [t \in {2} |-> 1]

(***************************************************************************)
(* Quality masking.                                                        *)
(***************************************************************************)

\* The mates the fragment has
Mates == IF mask_opts.paired_end_processing THEN {1, 2} ELSE {1}

Current(mate) == IF mate = 1 THEN seq1 ELSE seq2

\* A FASTQ record whose sequence and quality string differ in length
Malformed(dna) == dna.format = "FASTQ" /\ Len(dna.seq) # Len(dna.quals)

\* dna with every base of a quality below the minimum replaced by 'x'
Masked(dna, minimum_quality_score) ==
  [dna EXCEPT !.seq =
     [i \in 1..Len(dna.seq) |->
        IF dna.quals[i] - ExclamationMark < minimum_quality_score
          THEN "x" ELSE dna.seq[i]]]

\* What the claim says of a fragment that went on to classification:
\* FASTA records are untouched; in FASTQ records exactly the bases of low
\* quality became 'x', the length, the qualities and the header are kept
MaskedAsSpecified ==
  \A mate \in Mates :
    IF fragment[mate].format = "FASTA" THEN Current(mate) = fragment[mate]
    ELSE /\ Len(Current(mate).seq) = Len(fragment[mate].seq)
         /\ Current(mate) = Masked(fragment[mate], mask_opts.minimum_quality_score)

\* C29 as stated: masking changes only FASTQ records, replaces exactly the
\* bases whose quality is below minimum_quality_score by 'x', keeps the
\* length, and a FASTQ record whose sequence and quality lengths differ
\* always ends the run with a fatal data error, whatever the value of
\* minimum_quality_score.
C29_MismatchAlwaysFatal ==
  /\ mask_pc = "classify" =>
       /\ \A mate \in Mates : ~Malformed(fragment[mate])
       /\ MaskedAsSpecified
  /\ mask_pc = "errx" => \E mate \in Mates : Malformed(fragment[mate])

\* C29 amended: masking is run only when minimum_quality_score > 0.  Then
\* it changes only FASTQ records, replaces exactly the bases whose quality
\* is below the minimum by 'x' and keeps the length, and a FASTQ record
\* whose sequence and quality lengths differ ends the run with a fatal
\* data error.  With minimum_quality_score = 0 no record is changed and a
\* length mismatch raises no error.
C29_MismatchFatalWhenMasking ==
  /\ mask_pc = "classify" /\ mask_opts.minimum_quality_score > 0 =>
       /\ \A mate \in Mates : ~Malformed(fragment[mate])
       /\ MaskedAsSpecified
  /\ mask_pc = "classify" /\ mask_opts.minimum_quality_score = 0 =>
       seq1 = fragment[1] /\ seq2 = fragment[2]
  /\ mask_pc = "errx" =>
       /\ mask_opts.minimum_quality_score > 0
       /\ \E mate \in Mates : Malformed(fragment[mate])
  /\ mask_pc # "mask" /\ mask_opts.minimum_quality_score > 0
       /\ (\E mate \in Mates : Malformed(fragment[mate]))
       => mask_pc = "errx"
  /\ ~mask_opts.paired_end_processing => seq2 = fragment[2]

\* a paired FASTQ fragment masked with minimum 3: the bases of quality 2
\* become 'x', those of quality 5 stay
C29_Witness ==
  /\ mask_pc = "classify"
  /\ mask_opts = [minimum_quality_score |-> 3, paired_end_processing |-> TRUE]
  /\ fragment[1] = [format |-> "FASTQ", seq |-> <<"A", "C">>, quals |-> <<35, 38>>]
  /\ seq1.seq = <<"x", "C">>
  /\ fragment[2].quals = <<38, 35>>
  /\ seq2.seq[2] = "x"
  /\ seq2.seq[1] = fragment[2].seq[1]

\* a FASTQ record with one base and two qualities goes on to
\* classification when minimum_quality_score is 0
C29_MismatchAccepted ==
  /\ mask_pc = "classify"
  /\ mask_opts.minimum_quality_score = 0
  /\ fragment[1].format = "FASTQ"
  /\ Len(fragment[1].seq) = 1
  /\ Len(fragment[1].quals) = 2

(***************************************************************************)
(* The keys and counts of hit_counts.                                      *)
(***************************************************************************)

\* The keys are taxa, neither 0 nor a marker, and every count is positive
ValidHitCounts(hc) ==
  \A t \in DOMAIN hc :
    /\ t # 0
    /\ t \notin {MATE_PAIR_BORDER_TAXON, READING_FRAME_BORDER_TAXON, AMBIGUOUS_SPAN_TAXON}
    /\ hc[t] >= 1

\* C30: in every reachable state during and after a call of
\* ClassifySequence the keys of hit_counts exclude 0 and the three marker
\* ids, and every stored count is at least 1.
C30_HitCountsKeysValid == cpc # "idle" => ValidHitCounts(hit_counts)

\* C30 up to the call of ResolveTree: while the fragment is scanned the
\* keys of hit_counts exclude 0 and the markers and every count is
\* at least 1
C30_ValidWhileScanning ==
  cpc \in {"scan", "finished_searching"} => ValidHitCounts(hit_counts)

\* ClassifySequence returned from a fragment without any hit and left the
\* key 0 with count 0 in hit_counts
C30_ZeroKeyLeft ==
  /\ Returned
  /\ \A i \in 1..Len(taxa) : taxa[i] \notin Taxa
  /\ hit_counts = [t \in {0} |-> 0]

====
